---------------------------- MODULE Spec2Model ----------------------------
(***************************************************************************)
(* Building/Door aggregate store of GPSapp2: the Next.js route handlers    *)
(* over the Prisma models Building and Door (MySQL).                       *)
(*                                                                         *)
(*   POST   /api/door        src/backend/app/api/door/route.ts  66-151     *)
(*   GET    /api/door/{id}   src/backend/app/api/door/[id]/route.ts 26-66  *)
(*   PUT    /api/door/{id}   src/unnamed/part_015  501-631                 *)
(*   DELETE /api/door/{id}   src/unnamed/part_015  634-699                 *)
(*                                                                         *)
(* Every `await prisma...` of a handler is one step of the handler: other  *)
(* requests interleave between two awaits.  No handler opens a             *)
(* transaction.                                                            *)
(*                                                                         *)
(* Text is a sequence of one-character strings.  A coordinate sent by a    *)
(* client is a whole number of micro-degrees (a decimal with six places);  *)
(* a coordinate held in a FLOAT column is a whole number of 2^-23 degrees. *)
(***************************************************************************)
EXTENDS Integers, Sequences, FiniteSets, TLC

VARIABLES
    Building,   \* table Building: idBuilding -> row
    Door,       \* table Door: building_id -> its rows in idDoor order
    nextId,     \* AUTO_INCREMENT of Building.idBuilding
    now,        \* the clock read by `new Date()`
    pc,         \* per request slot: the await the handler stands at
    req,        \* per request slot: the request being handled
    resp,       \* the response sent by the step just taken, if it sent one
    deleted,    \* history: the ids whose DELETE was answered 200
    failed,     \* history: some PUT was answered 500
    client,     \* the draft the caller of a create holds (SpecCreate)
    pin,        \* the record the map draws a marker for (SpecPin)
    marker,     \* the colours and the image computed for pin (SpecPin)
    page,       \* the edit page: its React state and where the router is
    load,       \* the edit page: the locals of loadBuildingData
    save,       \* the edit page: the locals of handleSave
    timers      \* the edit page: the setTimeout callbacks not yet run

\* The variables of the edit page
pageVars == <<page, load, save, timers>>

vars ==
    <<Building, Door, nextId, now, pc, req, resp, deleted, failed, client, pin,
      marker, pageVars>>

----------------------------------------------------------------------------
(* Bounds of the model *)

\* Building rows ever inserted (AUTO_INCREMENT never hands an id out twice).
MaxId == 2

\* The largest numberOfDoors of a draft of the create form.
MaxDoors == 2

\* The most door labels a draft of the create form holds.
MaxLabels == 2

\* Two request slots: two handlers may run at once.
Procs == {"p1", "p2"}

Ids == 1..MaxId

----------------------------------------------------------------------------
(* Numbers *)

Max(a, b) == IF a >= b THEN a ELSE b
Abs(a) == IF a < 0 THEN -a ELSE a

RECURSIVE Pow2(_)
Pow2(n) == IF n = 0 THEN 1 ELSE 2 * Pow2(n - 1)

\* floor(log2 n) for n >= 1
RECURSIVE Log2(_)
Log2(n) == IF n < 2 THEN 0 ELSE 1 + Log2(n \div 2)

Micro == 1000 * 1000        \* micro-degrees in a degree
Five6 == 5 * 5 * 5 * 5 * 5 * 5    \* Micro = 2^6 * 5^6

Deg(d) == d * Micro

\* The latitude and longitude (micro-degrees) are in range
InRange(lat, long) ==
    /\ -Deg(90) <= lat /\ lat <= Deg(90)
    /\ -Deg(180) <= long /\ long <= Deg(180)

----------------------------------------------------------------------------
(* Column Building.lat / Building.long: `Float @db.Float`, a MySQL FLOAT   *)
(* (IEEE single precision, 24-bit significand).                            *)

\* The FLOAT nearest to the decimal v micro-degrees (v = 0 or |v| >= one
\* degree), in 2^-23-degree units.  With e = floor(log2 |v / 10^6|) the
\* significand is round(|v| * 2^(17-e) / 5^6) and one unit in the last place
\* is 2^e units of 2^-23 degree.  5^6 is odd, so no decimal lies half-way.
ToFloat(v) ==
    IF v = 0 THEN 0
    ELSE LET a == Abs(v)
             e == Log2(a \div Micro)
             sh == Pow2(17 - e)
             q == a \div Five6
             r == a % Five6
             k == (r * sh) \div Five6
             up == IF 2 * ((r * sh) % Five6) > Five6 THEN 1 ELSE 0
             m == q * sh + k + up
         IN  (IF v < 0 THEN -1 ELSE 1) * m * Pow2(e)

\* The number read from a FLOAT column (f, in 2^-23-degree units) is the
\* decimal v micro-degrees:  f / 2^23 = v / 10^6  iff  f * 5^6 = v * 2^17.
SameNumber(f, v) == v % Five6 = 0 /\ f = (v \div Five6) * Pow2(17)

----------------------------------------------------------------------------
(* Text *)

NULL == <<>>        \* a NULL information_name ('' itself is never stored)

\* JS s.split(','): the pieces between the commas; ''.split(',') is [''].
RECURSIVE split(_)
split(s) ==
    IF \A i \in 1..Len(s) : s[i] # "," THEN <<s>>
    ELSE LET k == CHOOSE i \in 1..Len(s) :
                      s[i] = "," /\ \A j \in 1..(i - 1) : s[j] # ","
         IN  <<SubSeq(s, 1, k - 1)>> \o split(SubSeq(s, k + 1, Len(s)))

\* JS s.trim()
RECURSIVE trim(_)
trim(s) ==
    IF s = <<>> THEN s
    ELSE IF Head(s) = " " THEN trim(Tail(s))
    ELSE IF s[Len(s)] = " " THEN trim(SubSeq(s, 1, Len(s) - 1))
    ELSE s

\* JS labels.join(', ')
RECURSIVE join(_)
join(labels) ==
    IF labels = <<>> THEN <<>>
    ELSE IF Len(labels) = 1 THEN labels[1]
    ELSE labels[1] \o <<",", " ">> \o join(Tail(labels))

Digit == <<"1", "2", "3", "4", "5", "6", "7", "8", "9">>

\* `Door ${i + 1} info` for the door at JS index i = n - 1
DoorPlaceholder(n) ==
    <<"D", "o", "o", "r", " ", Digit[n], " ", "i", "n", "f", "o">>

\* info.split(',').map(i => i.trim())
doorInfoArray(info) == LET parts == split(info)
                       IN  [i \in 1..Len(parts) |-> trim(parts[i])]

----------------------------------------------------------------------------
(* Rows, requests, responses *)

\* Table Congregation: the idCongregation values that exist.  Door.id_cong_app
\* is a foreign key into it (relation "id_cong_app1").
Congregation == {1, 2}

\* A request body after destructuring.  numbers: typeof lat and typeof long
\* are both 'number'.  lat, long: micro-degrees.
Body(numbers, lat, long, address, language, numberOfDoors, info, congregationId) ==
    [numbers |-> numbers, lat |-> lat, long |-> long, address |-> address,
     language |-> language, numberOfDoors |-> numberOfDoors, info |-> info,
     congregationId |-> congregationId]

NoBody == Body(FALSE, 0, 0, "", "", 0, <<>>, 0)

\* A request in a slot.  had: the building had Door rows when the handler
\* began (history, read by no handler).
Request(op, id, body, had) == [op |-> op, id |-> id, body |-> body, had |-> had]
NoReq == Request("none", 0, NoBody, FALSE)

\* A response: the request it answers, the status, the lat, long,
\* numberOfDoors and info of the JSON body of a GET by id, and the rows of
\* the JSON body of a GET of the list.
Response(op, id, body, had, status, lat, long, numberOfDoors, info) ==
    [op |-> op, id |-> id, body |-> body, had |-> had, status |-> status,
     lat |-> lat, long |-> long, numberOfDoors |-> numberOfDoors,
     info |-> info, rows |-> {}]

Answer(r, status) ==
    Response(r.op, r.id, r.body, r.had, status, 0, 0, 0, <<>>)
NoResp == Answer(NoReq, 0)

Stored(id) == id \in DOMAIN Building

\* The information_name of each Door row of building id, in idDoor order
LabelsOf(id) == [i \in 1..Len(Door[id]) |-> Door[id][i].information_name]

\* A Door table without the foreign key to Building: only the Congregation
\* row must exist.
ForeignKeysHoldCongregationOnly(rows) ==
    \A i \in 1..Len(rows) : rows[i].id_cong_app \in Congregation

\* prisma.door.createMany passes the foreign keys of Door: the Building row
\* and the Congregation row must exist.
ForeignKeysHold(rows) ==
    \A i \in 1..Len(rows) :
        Stored(rows[i].building_id) /\ rows[i].id_cong_app \in Congregation

\* prisma.door.createMany({ data: rows }), all rows for building id
CreateManyDoors(id, rows) == [Door EXCEPT ![id] = @ \o rows]

\* prisma.door.deleteMany({ where: { building_id: id } })
DeleteManyDoors(id) == [Door EXCEPT ![id] = <<>>]

Start(p, r) == req' = [req EXCEPT ![p] = r]
Finish(p) == /\ pc' = [pc EXCEPT ![p] = "idle"]
             /\ req' = [req EXCEPT ![p] = NoReq]

----------------------------------------------------------------------------
(* POST /api/door *)

\* A POST that builds as many Door rows as the request declares, whatever
\* the number of labels.
PostDoorsDeclaredCount(body, id) ==
    LET arr == doorInfoArray(body.info)
    IN  [i \in 1..body.numberOfDoors |->
            [language |-> body.language,
             information_name |->
                 IF i <= Len(arr) /\ arr[i] # <<>> THEN arr[i] ELSE NULL,
             building_id |-> id,
             id_cong_app |-> body.congregationId,
             id_cong_lang |-> 1]]

\* The Door rows POST builds for the new building id
PostDoors(body, id) ==
    LET arr == doorInfoArray(body.info)
    IN  [i \in 1..Max(body.numberOfDoors, Len(arr)) |->
            [language |-> body.language,
             information_name |->
                 IF i <= Len(arr) /\ arr[i] # <<>> THEN arr[i] ELSE NULL,
             building_id |-> id,
             id_cong_app |-> body.congregationId,
             id_cong_lang |-> 1]]

\* The row prisma.building.create inserts
PostBuildingRow(body) ==
    [lat |-> ToFloat(body.lat), long |-> ToFloat(body.long),
     address |-> body.address, territory_id |-> 1, last_modified |-> now]

\* typeof lat !== 'number' || typeof long !== 'number': 400, nothing written
PostInvalid(p, body) ==
    /\ pc[p] = "idle"
    /\ ~body.numbers
    /\ resp' = Answer(Request("POST", 0, NoBody, FALSE), 400)
    /\ UNCHANGED <<Building, Door, nextId, now, pc, req, deleted, failed, client, pin, marker, pageVars>>

\* Step 1: await prisma.building.create
PostCreateBuilding(p, body) ==
    /\ pc[p] = "idle"
    /\ body.numbers
    /\ nextId <= MaxId
    /\ Building' = [i \in DOMAIN Building \cup {nextId} |->
                       IF i = nextId THEN PostBuildingRow(body) ELSE Building[i]]
    /\ nextId' = nextId + 1
    /\ Start(p, Request("POST", nextId, body, FALSE))
    /\ pc' = [pc EXCEPT ![p] = "post_doors"]
    /\ resp' = NoResp
    /\ UNCHANGED <<Door, now, deleted, failed, client, pin, marker, pageVars>>

\* Step 2: await prisma.door.createMany, then the 201 response; a foreign
\* key that fails throws and the catch block answers 500
PostCreateDoors(p) ==
    /\ pc[p] = "post_doors"
    /\ LET rows == PostDoors(req[p].body, req[p].id)
       IN  IF ForeignKeysHold(rows)
           THEN /\ Door' = CreateManyDoors(req[p].id, rows)
                /\ resp' = Answer(req[p], 201)
           ELSE /\ Door' = Door
                /\ resp' = Answer(req[p], 500)
    /\ Finish(p)
    /\ UNCHANGED <<Building, nextId, now, deleted, failed, client, pin, marker, pageVars>>

----------------------------------------------------------------------------
(* PUT /api/door/{id} *)

\* The Door rows PUT builds for building id
PutDoors(body, id) ==
    LET arr == doorInfoArray(body.info)
    IN  [i \in 1..Max(body.numberOfDoors, Len(arr)) |->
            [language |-> body.language,
             information_name |->
                 IF i <= Len(arr) /\ arr[i] # <<>> THEN arr[i]
                 ELSE DoorPlaceholder(i),
             building_id |-> id,
             id_cong_app |-> body.congregationId,
             id_cong_lang |-> 1]]

\* The row prisma.building.update leaves
PutBuildingRow(old, body) ==
    [old EXCEPT !.lat = ToFloat(body.lat), !.long = ToFloat(body.long),
                !.address = body.address, !.territory_id = 1,
                !.last_modified = now]

\* typeof lat !== 'number' || typeof long !== 'number': 400
PutInvalid(p, id, body) ==
    /\ pc[p] = "idle"
    /\ ~body.numbers
    /\ resp' = Answer(Request("PUT", id, NoBody, FALSE), 400)
    /\ UNCHANGED <<Building, Door, nextId, now, pc, req, deleted, failed, client, pin, marker, pageVars>>

\* await prisma.building.findUnique finds nothing: 404
PutNotFound(p, id, body) ==
    /\ pc[p] = "idle"
    /\ body.numbers
    /\ ~Stored(id)
    /\ resp' = Answer(Request("PUT", id, NoBody, FALSE), 404)
    /\ UNCHANGED <<Building, Door, nextId, now, pc, req, deleted, failed, client, pin, marker, pageVars>>

\* await prisma.building.findUnique finds the row
PutFound(p, id, body) ==
    /\ pc[p] = "idle"
    /\ body.numbers
    /\ Stored(id)
    /\ Start(p, Request("PUT", id, body, Len(Door[id]) > 0))
    /\ pc' = [pc EXCEPT ![p] = "put_update"]
    /\ resp' = NoResp
    /\ UNCHANGED <<Building, Door, nextId, now, deleted, failed, client, pin, marker, pageVars>>

\* await prisma.building.update; it throws when the row is gone (500)
PutUpdateBuilding(p) ==
    /\ pc[p] = "put_update"
    /\ IF Stored(req[p].id)
       THEN /\ Building' = [Building EXCEPT
                               ![req[p].id] = PutBuildingRow(@, req[p].body)]
            /\ pc' = [pc EXCEPT ![p] = "put_delete"]
            /\ UNCHANGED req
            /\ resp' = NoResp
            /\ UNCHANGED failed
       ELSE /\ Building' = Building
            /\ Finish(p)
            /\ resp' = Answer(req[p], 500)
            /\ failed' = TRUE
    /\ UNCHANGED <<Door, nextId, now, deleted, client, pin, marker, pageVars>>

\* await prisma.door.deleteMany
PutDeleteDoors(p) ==
    /\ pc[p] = "put_delete"
    /\ Door' = DeleteManyDoors(req[p].id)
    /\ pc' = [pc EXCEPT ![p] = "put_create"]
    /\ resp' = NoResp
    /\ UNCHANGED <<Building, nextId, now, req, deleted, failed, client, pin, marker, pageVars>>

\* await prisma.door.createMany, then the 200 response
PutCreateDoors(p) ==
    /\ pc[p] = "put_create"
    /\ LET rows == PutDoors(req[p].body, req[p].id)
       IN  IF ForeignKeysHold(rows)
           THEN /\ Door' = CreateManyDoors(req[p].id, rows)
                /\ resp' = Answer(req[p], 200)
                /\ UNCHANGED failed
           ELSE /\ Door' = Door
                /\ resp' = Answer(req[p], 500)
                /\ failed' = TRUE
    /\ Finish(p)
    /\ UNCHANGED <<Building, nextId, now, deleted, client, pin, marker, pageVars>>

----------------------------------------------------------------------------
(* DELETE /api/door/{id} *)

\* await prisma.building.findUnique finds nothing: 404
DeleteNotFound(p, id) ==
    /\ pc[p] = "idle"
    /\ ~Stored(id)
    /\ resp' = Answer(Request("DELETE", id, NoBody, FALSE), 404)
    /\ UNCHANGED <<Building, Door, nextId, now, pc, req, deleted, failed, client, pin, marker, pageVars>>

\* await prisma.building.findUnique finds the row
DeleteFound(p, id) ==
    /\ pc[p] = "idle"
    /\ Stored(id)
    /\ Start(p, Request("DELETE", id, NoBody, Len(Door[id]) > 0))
    /\ pc' = [pc EXCEPT ![p] = "del_doors"]
    /\ resp' = NoResp
    /\ UNCHANGED <<Building, Door, nextId, now, deleted, failed, client, pin, marker, pageVars>>

\* await prisma.door.deleteMany
DeleteDoors(p) ==
    /\ pc[p] = "del_doors"
    /\ Door' = DeleteManyDoors(req[p].id)
    /\ pc' = [pc EXCEPT ![p] = "del_building"]
    /\ resp' = NoResp
    /\ UNCHANGED <<Building, nextId, now, req, deleted, failed, client, pin, marker, pageVars>>

\* A prisma.building.delete whose relation does not cascade: the Door rows
\* stay
DeleteBuildingRowOnly(id) ==
    /\ Building' = [i \in DOMAIN Building \ {id} |-> Building[i]]
    /\ Door' = Door

\* prisma.building.delete: the row goes, and with it every Door row that
\* references it (Door.Building is declared onDelete: Cascade)
DeleteBuildingRow(id) ==
    /\ Building' = [i \in DOMAIN Building \ {id} |-> Building[i]]
    /\ Door' = DeleteManyDoors(id)

\* await prisma.building.delete, then the 200 response; it throws when the
\* row is gone (500)
DeleteBuilding(p) ==
    /\ pc[p] = "del_building"
    /\ IF Stored(req[p].id)
       THEN /\ DeleteBuildingRow(req[p].id)
            /\ resp' = Answer(req[p], 200)
            /\ deleted' = deleted \cup {req[p].id}
       ELSE /\ UNCHANGED <<Building, Door, deleted>>
            /\ resp' = Answer(req[p], 500)
    /\ Finish(p)
    /\ UNCHANGED <<nextId, now, failed, client, pin, marker, pageVars>>

----------------------------------------------------------------------------
(* GET /api/door/{id} *)

\* prisma.building.findUnique({ where, include: { Door: true } }): the row and
\* its Door rows, or nothing
getAggregate(id) ==
    IF Stored(id)
    THEN [found |-> TRUE, building |-> Building[id], Door |-> Door[id]]
    ELSE [found |-> FALSE]

\* The 200 body: numberOfDoors is Door.length, info is the first Door's
\* information_name || ''
GetData(id) ==
    LET b == getAggregate(id)
    IN  Response("GET", id, NoBody, FALSE, 200, b.building.lat,
                 b.building.long, Len(b.Door),
                 IF Len(b.Door) > 0 THEN b.Door[1].information_name ELSE <<>>)

GET(p, id) ==
    /\ pc[p] = "idle"
    /\ resp' = IF getAggregate(id).found THEN GetData(id)
               ELSE Answer(Request("GET", id, NoBody, FALSE), 404)
    /\ UNCHANGED <<Building, Door, nextId, now, pc, req, deleted, failed, client, pin, marker, pageVars>>

----------------------------------------------------------------------------
(* A query that throws (connection lost, timeout): the handler's catch     *)
(* block answers 500 and nothing more of the handler runs.                 *)

DbError(p) ==
    /\ pc[p] # "idle"
    /\ Finish(p)
    /\ resp' = Answer(req[p], 500)
    /\ failed' = (failed \/ req[p].op = "PUT")
    /\ UNCHANGED <<Building, Door, nextId, now, deleted, client, pin, marker, pageVars>>

----------------------------------------------------------------------------
(* The store under concurrent requests *)

\* The request bodies clients send.  V1 declares two doors and labels one;
\* V2 has two doors, two labels and a position of eight significant digits;
\* V1 may name a Congregation that does not exist; and the coordinates may
\* be no numbers.
V1(congregationId) ==
    Body(TRUE, Deg(12) + 500000, Deg(77) + 250000, "A", "Tamil", 2, <<"a">>,
         congregationId)
V2 == Body(TRUE, 76955813, Deg(100), "B", "English", 2,
           <<"b", ",", " ", "c">>, 2)
NotNumbers == Body(FALSE, 0, 0, "A", "Tamil", 1, <<"a">>, 1)

PostBodies == {V1(1), V1(9), NotNumbers}
PutBodies == {V1(1), V2, NotNumbers}

\* What a caller of POST /api/door holds, named as the create page's
\* formData: position, address, language, door count and the label of each
\* door
Draft(lat, long, address, language, numberOfDoors, addressInfo) ==
    [lat |-> lat, long |-> long, address |-> address, language |-> language,
     numberOfDoors |-> numberOfDoors, addressInfo |-> addressInfo]

NoDraft == Draft(0, 0, "", "", 0, <<>>)

\* `/pins/pin${color}.png`, and concat('/pins/pin', Color, '.png')
PinPath(color) == <<"/pins/pin", color, ".png">>

\* A Pin of the map, as far as its marker goes: the pinImage and pinColor the
\* backend sent, its language and its congregationId.  getPinImage tests
\* each with || or as a condition: a missing one is the falsy NULL, 0 or "".
Pin(pinImage, pinColor, language, congregationId) ==
    [pinImage |-> pinImage, pinColor |-> pinColor, language |-> language,
     congregationId |-> congregationId]

NoPin == Pin(NULL, 0, "", 0)

\* What was computed for a pin: calculatePinColor of the server and of the
\* map, and getPinImage
Marker(server, map, image) == [server |-> server, map |-> map, image |-> image]

NoMarker == Marker(0, 0, NULL)

\* JS values that may be missing: undefined, null and NaN are the empty
\* tuple, the number n is <<n>>.  Number(undefined) is NaN and Number(n) is
\* n, so Number leaves the tuple as it is and isNaN tests for the empty one.
undefined == <<>>

\* A position of the page: null, or [lat, long] in micro-degrees
NoPosition == <<>>

\* formData of the edit page.  gps, the text `${lat}, ${long}`, is the pair of
\* the two numbers it shows (each NaN when the text shows no number), or the
\* empty tuple for ''; language is a tuple of one name; the labels of the
\* doors and the address are text.
FormData(gps, language, numberOfDoors, addressInfo, buildingAddress) ==
    [gps |-> gps, language |-> language, numberOfDoors |-> numberOfDoors,
     addressInfo |-> addressInfo, buildingAddress |-> buildingAddress]

\* useState({gps: '', language: 'English', numberOfDoors: 1,
\*           addressInfo: [''], buildingAddress: ''})
InitialFormData == FormData(<<>>, <<"English">>, 1, <<<<>>>>, <<>>)

\* An Error the page holds or raises: where it comes from ("status",
\* "network", "parse", of the candidate at index endpoint; "none": the page's
\* own `new Error(...)`, endpoint 0)
Error(kind, endpoint) == [kind |-> kind, endpoint |-> endpoint]

NoError == Error("", 0)

\* The React state of BuildingEditContent, the success message of the
\* BuildingForm it renders (formSuccess), and whether the router still shows
\* the page (route "edit") or has left it.  React compares the states of a
\* dependency array by Object.is: formIsOriginal says that formData and
\* originalFormData are one object, formIsClosure that formData is still
\* the object the running handleSave closed over.
InitialPage ==
    [position |-> NoPosition, showSuccessMessage |-> FALSE,
     showErrorMessage |-> FALSE, errorMessage |-> NoError,
     isLoading |-> FALSE, isDataLoaded |-> FALSE,
     formData |-> InitialFormData, originalData |-> undefined,
     formSuccess |-> FALSE, route |-> "edit",
     hasUnsavedChanges |-> FALSE, originalFormData |-> InitialFormData,
     formIsOriginal |-> TRUE, formIsClosure |-> FALSE,
     isDeleting |-> FALSE, showDeleteConfirm |-> FALSE]

\* The locals of loadBuildingData: where it stands (at), the candidate of
\* its loop (endpoint), data, lastError, the error it threw (thrown, a tuple
\* of none or one) and infoArray; and, as history, the candidates requested
\* so far, those whose answer has not come (inflight), the candidate whose
\* answer gave data (found), and whether an answer held the record of the
\* building (held)
NoLoad ==
    [at |-> "idle", endpoint |-> 0, requested |-> <<>>, inflight |-> {},
     found |-> 0, held |-> FALSE, data |-> undefined, lastError |-> NoError,
     thrown |-> <<>>, infoArray |-> <<>>]

\* The locals of handleSave: where it stands (at), the endpoint of its loop,
\* apiData (a tuple of none or one) and lastError, the formData it closed
\* over (a tuple of none or one) and whether that object is the
\* originalFormData of the page; and, as history, the number of PUT requests
\* sent, that number when a save succeeded (saved, 0 before), and the time
\* the last save failed (failedAt, a tuple of none or one); inflight is the
\* number of save requests sent and not yet answered.  delete holds the
\* locals of handleDelete: where it stands, the endpoint of its loop, its
\* lastError, and the number of DELETE requests it has sent.
NoSave ==
    [at |-> "idle", endpoint |-> 0, apiData |-> <<>>, lastError |-> NoError,
     formData |-> <<>>, closureIsOriginal |-> FALSE, inflight |-> 0,
     sent |-> 0, saved |-> 0, failedAt |-> <<>>,
     delete |-> [at |-> "idle", endpoint |-> 0, lastError |-> NoError,
                 sent |-> 0]]

\* No edit page is open
PageIdle ==
    /\ page = InitialPage
    /\ load = NoLoad
    /\ save = NoSave
    /\ timers = {}


Init ==
    /\ Building = <<>>
    /\ Door = [id \in Ids |-> <<>>]
    /\ nextId = 1
    /\ now = 0
    /\ pc = [p \in Procs |-> "idle"]
    /\ req = [p \in Procs |-> NoReq]
    /\ resp = NoResp
    /\ deleted = {}
    /\ failed = FALSE
    /\ client = NoDraft
    /\ pin = NoPin
    /\ marker = NoMarker
    /\ PageIdle

Next ==
    \E p \in Procs :
        \/ \E body \in PostBodies : PostInvalid(p, body)
        \/ \E body \in PostBodies : PostCreateBuilding(p, body)
        \/ PostCreateDoors(p)
        \/ \E id \in Ids, body \in PutBodies : PutInvalid(p, id, body)
        \/ \E id \in Ids, body \in PutBodies : PutNotFound(p, id, body)
        \/ \E id \in Ids, body \in PutBodies : PutFound(p, id, body)
        \/ PutUpdateBuilding(p)
        \/ PutDeleteDoors(p)
        \/ PutCreateDoors(p)
        \/ \E id \in Ids : DeleteNotFound(p, id)
        \/ \E id \in Ids : DeleteFound(p, id)
        \/ DeleteDoors(p)
        \/ DeleteBuilding(p)
        \/ \E id \in Ids : GET(p, id)
        \/ DbError(p)

Spec == Init /\ [][Next]_vars

----------------------------------------------------------------------------
(* One create: a caller posts its draft once, encoded as the create page   *)
(* encodes it, and reads the new building back.  The handler checks        *)
(* nothing but the type of lat and long, so every draft reaches it.        *)

\* handleSave's apiData: info is addressInfo.join(', '); no congregationId is
\* sent, so the handler's default of 1 applies
apiData(d) ==
    Body(TRUE, d.lat, d.long, d.address, d.language, d.numberOfDoors,
         join(d.addressInfo), 1)

\* Latitudes and longitudes a draft may hold, in micro-degrees: in range
\* (0, 12.5, 77.25, the poles and the date line, eight-digit positions) and
\* out of range.
Lats == {0, Deg(12) + 500000, 76955813, Deg(90), -Deg(90), Deg(91)}
Longs == {Deg(77) + 250000, 128000010, Deg(180), -Deg(180), Deg(181)}

\* Door labels a draft may hold: empty, plain, blank, with a blank before or
\* after, with a comma
Labels == { <<>>, <<"a">>, <<"b">>, <<" ">>, <<" ", "a">>, <<"a", " ">>,
            <<"a", ",", "b">> }

RECURSIVE SeqsUpTo(_, _)
SeqsUpTo(S, n) ==
    IF n = 0 THEN {<<>>}
    ELSE LET shorter == SeqsUpTo(S, n - 1)
         IN  shorter \cup {Append(q, x) : q \in shorter, x \in S}

Drafts ==
    {Draft(lat, long, "A", "Tamil", 1, <<<<"a">>>>) :
        lat \in Lats, long \in Longs}
    \cup
    {Draft(Deg(12) + 500000, Deg(77) + 250000, "A", "Tamil", n, labels) :
        n \in 0..MaxDoors, labels \in SeqsUpTo(Labels, MaxLabels)}

InitCreate ==
    /\ Building = <<>>
    /\ Door = [id \in Ids |-> <<>>]
    /\ nextId = 1
    /\ now = 0
    /\ pc = [p \in Procs |-> "idle"]
    /\ req = [p \in Procs |-> NoReq]
    /\ resp = NoResp
    /\ deleted = {}
    /\ failed = FALSE
    /\ client \in Drafts
    /\ pin = NoPin
    /\ marker = NoMarker
    /\ PageIdle

\* handleSave: one POST of the draft
ClientPost == nextId = 1 /\ PostCreateBuilding("p1", apiData(client))

NextCreate ==
    \/ ClientPost
    \/ PostCreateDoors("p1")
    \/ DbError("p1")
    \/ \E id \in Ids : GET("p1", id)

SpecCreate == InitCreate /\ [][NextCreate]_vars

----------------------------------------------------------------------------
(* PUT and DELETE /api/door/{id} of src/backend/app/api/door/[id]/route.ts: *)
(* they look nothing up before they write.  They name the key of Door      *)
(* buildingId and doorId, where the Prisma schema has building_id and      *)
(* idDoor; they are modelled as written, buildingId read as building_id    *)
(* and the Door of doorId 1 as the building's first Door.                  *)

\* lat === undefined || long === undefined || !address || !numberOfDoors ||
\* !language || !info
MissingFields(body) ==
    \/ ~body.numbers
    \/ body.address = ""
    \/ body.numberOfDoors = 0
    \/ body.language = ""
    \/ body.info = <<>>

\* 400 Missing required fields
BackendPutMissing(p, id, body) ==
    /\ pc[p] = "idle"
    /\ MissingFields(body)
    /\ resp' = Answer(Request("PUT", id, NoBody, FALSE), 400)
    /\ UNCHANGED <<Building, Door, nextId, now, pc, req, deleted, failed, client, pin, marker, pageVars>>

\* await prisma.building.update throws, and the catch block answers 500: no
\* Building row has the id, or the building has no Door and the create branch
\* of the upsert gives the new row no id_cong_app.  The nested write is one
\* transaction: nothing is written.
BackendPutThrows(p, id, body) ==
    /\ pc[p] = "idle"
    /\ ~MissingFields(body)
    /\ ~Stored(id) \/ Door[id] = <<>>
    /\ resp' = Answer(Request("PUT", id, body, Len(Door[id]) > 0), 500)
    /\ UNCHANGED <<Building, Door, nextId, now, pc, req, deleted, failed, client, pin, marker, pageVars>>

\* The row prisma.building.update leaves: lat, long and address are set,
\* last_modified is not
BackendPutBuildingRow(old, body) ==
    [old EXCEPT !.lat = ToFloat(body.lat), !.long = ToFloat(body.long),
                !.address = body.address]

\* The update branch of the upsert: the building's first Door takes the
\* language and, as its information_name, String(info)
BackendPutDoors(doors, body) ==
    [doors EXCEPT ![1] = [@ EXCEPT !.language = body.language,
                                   !.information_name = body.info]]

\* await prisma.building.update succeeds, 200
BackendPut(p, id, body) ==
    /\ pc[p] = "idle"
    /\ ~MissingFields(body)
    /\ Stored(id)
    /\ Door[id] # <<>>
    /\ Building' = [Building EXCEPT ![id] = BackendPutBuildingRow(@, body)]
    /\ Door' = [Door EXCEPT ![id] = BackendPutDoors(@, body)]
    /\ resp' = Answer(Request("PUT", id, body, TRUE), 200)
    /\ UNCHANGED <<nextId, now, pc, req, deleted, failed, client, pin, marker, pageVars>>

\* await prisma.door.deleteMany; the handler goes on to
\* await prisma.building.delete, the step DeleteBuilding
BackendDeleteDoors(p, id) ==
    /\ pc[p] = "idle"
    /\ Door' = DeleteManyDoors(id)
    /\ Start(p, Request("DELETE", id, NoBody, Len(Door[id]) > 0))
    /\ pc' = [pc EXCEPT ![p] = "del_building"]
    /\ resp' = NoResp
    /\ UNCHANGED <<Building, nextId, now, deleted, failed, client, pin, marker, pageVars>>

----------------------------------------------------------------------------
(* GET /api/door: the view Building_v_24h *)

\* The clock ticks twice a day: INTERVAL 1 DAY is two ticks.
Day == 2

\* The clock values of a run
MaxNow == 3

\* Time passes
Tick ==
    /\ now < MaxNow
    /\ now' = now + 1
    /\ resp' = NoResp
    /\ UNCHANGED <<Building, Door, nextId, pc, req, deleted, failed, client, pin, marker, pageVars>>

\* Table Language, the catalog of colours: no handler writes it.  Row 1 is
\* the row every Door references through id_cong_lang.
Language ==
    { [idLanguage |-> 1, id_cong_app |-> 2, name |-> "English", Color |-> 9] }

\* The characters of labels in the order of the column's collation, and
\* text s sorting before text t
Collation ==
    <<" ", ",", "1", "2", "3", "4", "5", "6", "7", "8", "9",
      "a", "b", "c", "D", "f", "i", "n", "o", "r">>

Weight(c) == CHOOSE i \in 1..Len(Collation) : Collation[i] = c

RECURSIVE Before(_, _)
Before(s, t) ==
    IF s = <<>> THEN t # <<>>
    ELSE IF t = <<>> THEN FALSE
    ELSE IF s[1] = t[1] THEN Before(Tail(s), Tail(t))
    ELSE Weight(s[1]) < Weight(t[1])

\* max(d.information_name) over the texts S: NULL values do not count, and
\* the maximum of none is NULL
MaxInformationName(S) ==
    LET T == {x \in S : x # NULL}
    IN  IF T = {} THEN NULL
        ELSE CHOOSE x \in T : \A y \in T : y = x \/ Before(y, x)

\* l.Color of the Language row joined to Door row d, 0 for NULL
ColorOf(d) ==
    LET ls == {l \in Language :
                   l.id_cong_app = d.id_cong_app /\ l.name = d.language}
    IN  IF ls = {} THEN 0 ELSE (CHOOSE l \in ls : TRUE).Color

\* A row of the view; NULL language is "", NULL numbers are 0
ViewRow(id, numberOfDoors, info, language, congregationId, pinColor, pinImage) ==
    [id |-> id, lat |-> Building[id].lat, long |-> Building[id].long,
     address |-> Building[id].address,
     last_modified |-> Building[id].last_modified,
     numberOfDoors |-> numberOfDoors, info |-> info, language |-> language,
     congregationId |-> congregationId, pinColor |-> pinColor,
     pinImage |-> pinImage]

\* The rows of the view for building id: one per (d.language, d.id_cong_app,
\* l.Color) of its doors, and one of NULLs when it has no door (LEFT JOIN)
ViewRowsOf(id) ==
    LET doors == {Door[id][i] : i \in 1..Len(Door[id])}
        Key(d) == <<d.language, d.id_cong_app, ColorOf(d)>>
        Group(k) == {i \in 1..Len(Door[id]) : Key(Door[id][i]) = k}
    IN  IF doors = {}
        THEN {ViewRow(id, 0, NULL, "", 0, 0, NULL)}
        ELSE {ViewRow(id, Cardinality(Group(k)),
                      MaxInformationName(
                          {Door[id][i].information_name : i \in Group(k)}),
                      k[1], k[2], k[3],
                      IF k[3] = 0 THEN NULL ELSE PinPath(k[3])) :
                 k \in {Key(d) : d \in doors}}

\* WHERE b.last_modified >= NOW() - INTERVAL 1 DAY
InWindow(id) == Building[id].last_modified >= now - Day

Building_v_24h ==
    UNION {ViewRowsOf(id) : id \in {i \in DOMAIN Building : InWindow(i)}}

\* The 200 response of a GET of the list
Listing(op, rows) ==
    [Answer(Request(op, 0, NoBody, FALSE), 200) EXCEPT !.rows = rows]

\* GET of route.ts, lines 40-63: the rows of the view as they are
GETView(p) ==
    /\ pc[p] = "idle"
    /\ resp' = Listing("GETView", Building_v_24h)
    /\ UNCHANGED <<Building, Door, nextId, now, pc, req, deleted, failed, client, pin, marker, pageVars>>

\* GET of route.ts, lines 189-230: the rows whose language is not NULL, with
\* id, lat, long, address, numberOfDoors, language || 'English' and info
GETLanguages(p) ==
    /\ pc[p] = "idle"
    /\ resp' = Listing("GETLanguages",
                   {[r EXCEPT !.last_modified = 0, !.congregationId = 0,
                              !.pinColor = 0, !.pinImage = NULL] :
                       r \in {v \in Building_v_24h : v.language # ""}})
    /\ UNCHANGED <<Building, Door, nextId, now, pc, req, deleted, failed, client, pin, marker, pageVars>>

\* "No info available"
NoInfoAvailable ==
    <<"N", "o", " ", "i", "n", "f", "o", " ",
      "a", "v", "a", "i", "l", "a", "b", "l", "e">>

\* GET of part_015, lines 343-401: every row, with String(numberOfDoors || 1),
\* info || "No info available", language || "Tamil", Number(pinColor) and
\* pinImage || "/pins/pin1.png"
GETPins(p) ==
    /\ pc[p] = "idle"
    /\ resp' = Listing("GETPins",
                   {[r EXCEPT
                        !.numberOfDoors = <<Digit[IF @ = 0 THEN 1 ELSE @]>>,
                        !.info = IF @ = NULL THEN NoInfoAvailable ELSE @,
                        !.language = IF @ = "" THEN "Tamil" ELSE @,
                        !.pinImage = IF @ = NULL THEN PinPath(1) ELSE @] :
                       r \in Building_v_24h})
    /\ UNCHANGED <<Building, Door, nextId, now, pc, req, deleted, failed, client, pin, marker, pageVars>>

----------------------------------------------------------------------------
(* The backend routes as they stand in src/backend: POST and the GETs of    *)
(* the list, GET, PUT and DELETE by id, while time passes.  No query fails *)
(* but for the data it is given.                                           *)

\* The bodies sent: V1, V2, V1 with a Congregation that does not exist, and a
\* body without info
NoInfo == Body(TRUE, Deg(12) + 500000, Deg(77) + 250000, "A", "Tamil", 1,
               <<>>, 1)

BackendPostBodies == {V2, V1(1), V1(9)}
BackendPutBodies == {V1(1), NoInfo}

NextBackend ==
    \/ Tick
    \/ \E p \in Procs :
        \/ \E body \in BackendPostBodies : PostCreateBuilding(p, body)
        \/ PostCreateDoors(p)
        \/ \E id \in Ids, body \in BackendPutBodies :
               BackendPutMissing(p, id, body)
        \/ \E id \in Ids, body \in BackendPutBodies :
               BackendPutThrows(p, id, body)
        \/ \E id \in Ids, body \in BackendPutBodies : BackendPut(p, id, body)
        \/ \E id \in Ids : BackendDeleteDoors(p, id)
        \/ DeleteBuilding(p)
        \/ \E id \in Ids : GET(p, id)
        \/ GETView(p)
        \/ GETLanguages(p)
        \/ GETPins(p)

SpecBackend == Init /\ [][NextBackend]_vars

----------------------------------------------------------------------------
(* The colour and the image of a marker: calculatePinColor of the server   *)
(* (route.ts) and of the map (Map.tsx), and getPinImage of the map.        *)

\* The largest congregationId of a pin
MaxCongregation == 5

\* Names of languages as they are typed, and language.toLowerCase()
Languages ==
    {"", "english", "English", "tamil", "Tamil", "TAMIL", "hindi", "Hindi",
     "telugu", "Telugu", "malayalam", "Malayalam", "spanish"}

toLowerCase(language) ==
    CASE language = "English" -> "english"
      [] language \in {"Tamil", "TAMIL"} -> "tamil"
      [] language = "Hindi" -> "hindi"
      [] language = "Telugu" -> "telugu"
      [] language = "Malayalam" -> "malayalam"
      [] OTHER -> language

\* defaultLanguagePinMap[language.toLowerCase()] || 1
defaultLanguagePinMap(language) ==
    CASE toLowerCase(language) = "english" -> 1
      [] toLowerCase(language) = "tamil" -> 2
      [] toLowerCase(language) = "hindi" -> 3
      [] toLowerCase(language) = "telugu" -> 4
      [] toLowerCase(language) = "malayalam" -> 5
      [] OTHER -> 1

Min(a, b) == IF a < b THEN a ELSE b

\* calculatePinColor of route.ts: Math.min(pin, 15)
calculatePinColorServer(congregationId, language) ==
    LET base == defaultLanguagePinMap(language)
    IN  IF congregationId = 1 THEN base
        ELSE Min((congregationId - 1) * 5 + base, 15)

\* A calculatePinColor that lets the colour grow past 15
calculatePinColorUnbounded(congregationId, language) ==
    LET languageOffset == defaultLanguagePinMap(language)
    IN  IF congregationId = 1 THEN languageOffset
        ELSE (congregationId - 1) * 5 + languageOffset

\* calculatePinColor of Map.tsx: ((pinColor - 1) % 15) + 1 above 15
calculatePinColorMap(congregationId, language) ==
    LET languageOffset == defaultLanguagePinMap(language)
        pinColor == (congregationId - 1) * 5 + languageOffset
    IN  IF congregationId = 1 THEN languageOffset
        ELSE IF pinColor > 15 THEN ((pinColor - 1) % 15) + 1
        ELSE pinColor

\* The last branch of getPinImage: the colour is computed from the pin's
\* language and congregationId, else the fallbacks, else the props of the
\* Map, else 'english' and 1
computedPinImage(p, fallbackLanguage, fallbackCongId, selectedLanguage, congregationId) ==
    LET language ==
            IF p.language # "" THEN p.language
            ELSE IF fallbackLanguage # "" THEN fallbackLanguage
            ELSE IF selectedLanguage # "" THEN selectedLanguage
            ELSE "english"
        congId ==
            IF p.congregationId # 0 THEN p.congregationId
            ELSE IF fallbackCongId # 0 THEN fallbackCongId
            ELSE IF congregationId # 0 THEN congregationId
            ELSE 1
    IN  PinPath(calculatePinColorMap(congId, language))

\* A getPinImage that looks at pinColor before pinImage
getPinImageColorFirst(p, fallbackLanguage, fallbackCongId, selectedLanguage, congregationId) ==
    IF p.pinColor # 0 THEN PinPath(p.pinColor)
    ELSE IF p.pinImage # NULL THEN p.pinImage
    ELSE computedPinImage(p, fallbackLanguage, fallbackCongId,
                          selectedLanguage, congregationId)

\* getPinImage(pin, fallbackLanguage, fallbackCongId) of a Map whose props
\* are selectedLanguage and congregationId
getPinImage(p, fallbackLanguage, fallbackCongId, selectedLanguage, congregationId) ==
    IF p.pinImage # NULL THEN p.pinImage
    ELSE IF p.pinColor # 0 THEN PinPath(p.pinColor)
    ELSE computedPinImage(p, fallbackLanguage, fallbackCongId,
                          selectedLanguage, congregationId)

\* The pins drawn: with and without an image, a colour, a language and a
\* congregationId from the backend
Pins ==
    {Pin(image, color, language, cong) :
        image \in {NULL, PinPath(3)}, color \in {0, 7},
        language \in Languages, cong \in 0..MaxCongregation}

InitPin ==
    /\ Building = <<>>
    /\ Door = [id \in Ids |-> <<>>]
    /\ nextId = 1
    /\ now = 0
    /\ pc = [p \in Procs |-> "idle"]
    /\ req = [p \in Procs |-> NoReq]
    /\ resp = NoResp
    /\ deleted = {}
    /\ failed = FALSE
    /\ client = NoDraft
    /\ pin \in Pins
    /\ marker = NoMarker
    /\ PageIdle

\* The marker of the pin is drawn: getPinImage(pin) as the map calls it for
\* the pins of the list, under the props of the map; and the colour the
\* server and the map compute for the numbers and names that are the pin's
\* congregationId and language
Draw ==
    /\ marker = NoMarker
    /\ \E selectedLanguage \in {"", "Hindi"}, congregationId \in {0, 2} :
           marker' = Marker(
               calculatePinColorServer(pin.congregationId, pin.language),
               calculatePinColorMap(pin.congregationId, pin.language),
               getPinImage(pin, "", 0, selectedLanguage, congregationId))
    /\ UNCHANGED <<Building, Door, nextId, now, pc, req, resp, deleted, failed, client, pin, pageVars>>

NextPin == Draw

SpecPin == InitPin /\ [][NextPin]_vars

----------------------------------------------------------------------------
(* The edit page (src/unnamed/part_001): loadBuildingData.  The page asks  *)
(* its candidate endpoints for the building of the id in its URL, takes    *)
(* the record out of the first answer that holds one, and fills position   *)
(* and formData from it.                                                   *)

\* searchParams.get('id')
buildingId == 1

\* The candidates, the id in them written {id}
possibleEndpoints ==
    <<"/api/door/{id}", "/api/buildings/{id}", "/api/door?id={id}",
      "/api/buildings?id={id}", "/api/door">>

\* The fields of a record an endpoint may send
Fields ==
    {"id", "_id", "buildingId", "lat", "latitude", "Lat", "Latitude", "long",
     "lng", "longitude", "Long", "Lng", "Longitude", "coordinates",
     "numberOfDoors", "info", "language", "address", "congregationId"}

\* The fields of its `coordinates` the page reads
CoordinateFields == {"lat", "latitude", "lng", "long", "longitude"}

NoRecord == [f \in Fields |-> undefined]

NoCoordinates == [f \in CoordinateFields |-> undefined]

\* a || b of two numbers that may be missing: 0, NaN, null and undefined are
\* falsy
OrElse(a, b) == IF a # undefined /\ a[1] # 0 THEN a ELSE b

\* String(building.id) === String(buildingId) || ... _id ... || ... buildingId
IsBuilding(building, id) ==
    \/ building["id"] = <<id>>
    \/ building["_id"] = <<id>>
    \/ building["buildingId"] = <<id>>

\* records.find(building => ...): the first that matches, or undefined
find(records, id) ==
    IF \E i \in 1..Len(records) : IsBuilding(records[i], id)
    THEN <<records[CHOOSE i \in 1..Len(records) :
                /\ IsBuilding(records[i], id)
                /\ \A j \in 1..(i - 1) : ~IsBuilding(records[j], id)]>>
    ELSE undefined

\* The JSON of an answer: a bare array, {buildings: [...]}, {building: {...}}
\* or a bare object
Json(shape, records) == [shape |-> shape, records |-> records]

\* What `data` is after an ok answer of JSON responseData (lines 100-118),
\* given what it was before: a tuple of none or one record
dataFrom(responseData, before) ==
    IF responseData.shape = "array"
    THEN find(responseData.records, buildingId)
    ELSE IF responseData.shape = "buildings"
    THEN find(responseData.records, buildingId)
    ELSE IF /\ responseData.shape = "object"
            /\ OrElse(responseData.records[1]["id"],
                      OrElse(responseData.records[1]["_id"],
                             responseData.records[1]["buildingId"]))
                   # undefined
    THEN <<responseData.records[1]>>
    ELSE before

\* The outcome of one fetch: it rejects ("network"), answers a status that is
\* not ok ("status"), answers ok with a body that is not JSON ("parse"), or
\* answers ok with JSON ("ok")
Fetched(kind, json) == [kind |-> kind, json |-> json]

\* The outcome is an ok answer whose JSON holds the record of the building
HoldsBuilding(fetched) ==
    /\ fetched.kind = "ok"
    /\ \E i \in 1..Len(fetched.json.records) :
           IsBuilding(fetched.json.records[i], buildingId)

\* lastError after the outcome of the candidate at index endpoint
lastErrorAfter(lastError, fetched, endpoint) ==
    IF fetched.kind = "ok" THEN lastError ELSE Error(fetched.kind, endpoint)

\* `if (data) break`
NeverBreak(data) == FALSE

Break(data) == data # undefined

\* `throw lastError || new Error(...)`
Thrown(lastError) == IF lastError # NoError THEN lastError ELSE Error("none", 0)

\* The default location: Chennai, 13.0827 and 80.2707, in micro-degrees
defaultLat == 13082700
defaultLong == 80270700

\* lat after lines 141-147: the first truthy of the four names (the last if
\* none is), and when that is no number, the first truthy of coordinates'
\* lat, latitude and lng
latOf(data) ==
    LET top == OrElse(data["lat"], OrElse(data["latitude"],
                   OrElse(data["Lat"], data["Latitude"])))
        c == data["coordinates"]
    IN  IF top = undefined /\ c # undefined
        THEN OrElse(c[1]["lat"], OrElse(c[1]["latitude"], c[1]["lng"]))
        ELSE top

\* long after lines 142-150
longOf(data) ==
    LET top == OrElse(data["long"], OrElse(data["lng"],
                   OrElse(data["longitude"], OrElse(data["Long"],
                       OrElse(data["Lng"], data["Longitude"])))))
        c == data["coordinates"]
    IN  IF top = undefined /\ c # undefined
        THEN OrElse(c[1]["long"], OrElse(c[1]["lng"], c[1]["longitude"]))
        ELSE top

\* Line 156, negated: both are numbers, within [-90, 90] and [-180, 180]
ValidCoordinates(numLat, numLong) ==
    /\ numLat # undefined
    /\ numLong # undefined
    /\ InRange(numLat[1], numLong[1])

\* setPosition of lines 161 and 165
positionOf(data) ==
    IF ValidCoordinates(latOf(data), longOf(data))
    THEN <<latOf(data)[1], longOf(data)[1]>>
    ELSE <<defaultLat, defaultLong>>

\* info.split(',').filter(item => item !== '')
compactUntrimmed(info) == SelectSeq(split(info), LAMBDA item : item # <<>>)

\* info.split(',').map(item => item.trim()).filter(item => item !== '')
compact(info) == SelectSeq(doorInfoArray(info), LAMBDA item : item # <<>>)

\* Line 168: infoArray
infoArrayOf(data) ==
    IF data["info"] # <<>> THEN compact(data["info"]) ELSE <<<<>>>>

\* Line 169: numberOfDoorsFromAPI
numberOfDoorsFromAPI(data) ==
    IF data["numberOfDoors"] # undefined THEN data["numberOfDoors"][1]
    ELSE IF Len(infoArrayOf(data)) > 0 THEN Len(infoArrayOf(data))
    ELSE 1

\* Lines 175-184: addressInfo, filled with '' up to the count and cut to it
addressInfoOf(infoArray, numberOfDoors) ==
    LET first == IF Len(infoArray) > 0 THEN infoArray
                 ELSE [i \in 1..numberOfDoors |-> <<>>]
        filled == first \o [i \in 1..(numberOfDoors - Len(first)) |-> <<>>]
    IN  SubSeq(filled, 1, numberOfDoors)

\* Lines 171-184: initialFormData
initialFormData(data) ==
    FormData(<<latOf(data), longOf(data)>>,
             IF data["language"] # <<>> THEN data["language"]
             ELSE <<"English">>,
             numberOfDoorsFromAPI(data),
             addressInfoOf(infoArrayOf(data), numberOfDoorsFromAPI(data)),
             data["address"])

\* The page after lines 137-190 without the finally block
LoadedStillBusy(data) ==
    [page EXCEPT !.position = positionOf(data),
                 !.formData = initialFormData(data),
                 !.originalFormData = initialFormData(data),
                 !.formIsOriginal = TRUE,
                 !.hasUnsavedChanges = FALSE,
                 !.originalData = <<data>>,
                 !.isDataLoaded = TRUE]

\* The page after lines 137-190 and the finally block: the record is loaded
Loaded(data) ==
    [page EXCEPT !.position = positionOf(data),
                 !.formData = initialFormData(data),
                 !.originalFormData = initialFormData(data),
                 !.formIsOriginal = TRUE,
                 !.hasUnsavedChanges = FALSE,
                 !.originalData = <<data>>,
                 !.isDataLoaded = TRUE,
                 !.isLoading = FALSE]

\* The page after the catch and the finally block: the load has failed
LoadFailed(error) ==
    [page EXCEPT !.errorMessage = error,
                 !.showErrorMessage = TRUE,
                 !.isDataLoaded = TRUE,
                 !.isLoading = FALSE]

\* useEffect: loadBuildingData starts and awaits the fetch of the first
\* candidate
LoadStart ==
    /\ load.at = "idle"
    /\ page.route = "edit"
    /\ page' = [page EXCEPT !.isLoading = TRUE, !.errorMessage = NoError]
    /\ load' = [load EXCEPT !.at = "fetching", !.endpoint = 1,
                            !.requested = <<1>>, !.inflight = {1}]
    /\ UNCHANGED <<Building, Door, nextId, now, pc, req, resp, deleted, failed, client, pin, marker, save, timers>>

\* The awaited fetch settles as fetched.  The loop goes on to the next
\* candidate and awaits its fetch; or it ends, with data (the record is
\* loaded) or without (the error is thrown and caught).
LoadAnswer(fetched) ==
    /\ load.at = "fetching"
    /\ LET endpoint == load.endpoint
           data == IF fetched.kind = "ok"
                   THEN dataFrom(fetched.json, load.data)
                   ELSE load.data
           lastError == lastErrorAfter(load.lastError, fetched, endpoint)
           settled == [load EXCEPT
                          !.inflight = @ \ {endpoint},
                          !.data = data,
                          !.lastError = lastError,
                          !.found = IF @ = 0 /\ data # undefined
                                    THEN endpoint ELSE @,
                          !.held = @ \/ HoldsBuilding(fetched)]
       IN  IF ~Break(data) /\ endpoint < Len(possibleEndpoints)
           THEN /\ load' = [settled EXCEPT
                               !.endpoint = endpoint + 1,
                               !.requested = Append(@, endpoint + 1),
                               !.inflight = @ \cup {endpoint + 1}]
                /\ page' = page
           ELSE IF data = undefined
           THEN /\ load' = [settled EXCEPT !.at = "done",
                                           !.thrown = <<Thrown(lastError)>>]
                /\ page' = LoadFailed(Thrown(lastError))
           ELSE /\ load' = [settled EXCEPT !.at = "done",
                                           !.infoArray = infoArrayOf(data[1])]
                /\ page' = Loaded(data[1])
    /\ UNCHANGED <<Building, Door, nextId, now, pc, req, resp, deleted, failed, client, pin, marker, save, timers>>

\* r with the fields of patch set as patch sets them
Patch(r, patch) ==
    [f \in Fields |-> IF f \in DOMAIN patch THEN patch[f] ELSE r[f]]

\* The record of building id as GET /api/door/{id} sends it: 12.5, 77.25,
\* two doors 'a, b'
Record(id) ==
    Patch(NoRecord,
          [id |-> <<id>>, lat |-> <<Deg(12) + 500000>>,
           long |-> <<Deg(77) + 250000>>, numberOfDoors |-> <<2>>,
           info |-> join(<< <<"a">>, <<"b">> >>), language |-> <<"Tamil">>,
           address |-> <<"A">>, congregationId |-> <<1>>])

\* The same record without its coordinates, and without its doors
NoPlace == Patch(Record(buildingId), [lat |-> undefined, long |-> undefined])
NoDoors == Patch(Record(buildingId), [numberOfDoors |-> undefined, info |-> undefined])

\* Latitudes a record may hold: none, 12.5, 0 and 95 under one name or two
LatCases ==
    { [id |-> <<buildingId>>],
      [id |-> <<buildingId>>, lat |-> <<Deg(12) + 500000>>],
      [id |-> <<buildingId>>, lat |-> <<0>>],
      [id |-> <<buildingId>>, lat |-> <<Deg(95)>>],
      [id |-> <<buildingId>>, Latitude |-> <<Deg(12) + 500000>>],
      [id |-> <<buildingId>>, Latitude |-> <<0>>],
      [id |-> <<buildingId>>, lat |-> <<Deg(95)>>,
                              latitude |-> <<Deg(12) + 500000>>],
      [id |-> <<buildingId>>, lat |-> <<0>>,
                              latitude |-> <<Deg(12) + 500000>>],
      [id |-> <<buildingId>>, latitude |-> <<0>>, Lat |-> <<0>>] }

\* Longitudes a record may hold: none, 77.25, 0 and 200
LongCases ==
    { [id |-> <<buildingId>>],
      [id |-> <<buildingId>>, long |-> <<Deg(77) + 250000>>],
      [id |-> <<buildingId>>, long |-> <<0>>],
      [id |-> <<buildingId>>, lng |-> <<Deg(77) + 250000>>],
      [id |-> <<buildingId>>, Longitude |-> <<Deg(77) + 250000>>],
      [id |-> <<buildingId>>, long |-> <<Deg(200)>>],
      [id |-> <<buildingId>>, long |-> <<Deg(200)>>,
                              lng |-> <<Deg(77) + 250000>>] }

\* The `coordinates` a record may hold: none, 12.5 and 77.25, 0 and 77.25,
\* a lng alone
CoordinatesCases ==
    { [id |-> <<buildingId>>],
      [id |-> <<buildingId>>,
       coordinates |-> <<[NoCoordinates EXCEPT
                             !["lat"] = <<Deg(12) + 500000>>,
                             !["long"] = <<Deg(77) + 250000>>]>>],
      [id |-> <<buildingId>>,
       coordinates |-> <<[NoCoordinates EXCEPT
                             !["latitude"] = <<0>>,
                             !["longitude"] = <<Deg(77) + 250000>>]>>],
      [id |-> <<buildingId>>,
       coordinates |-> <<[NoCoordinates EXCEPT
                             !["lng"] = <<Deg(77) + 250000>>]>>] }

\* The records of the building the endpoints may send: every case of its
\* coordinates, and every count of doors with every text of labels
RawRecords ==
    {Patch(Patch(Patch(NoPlace, a), o), c) :
        a \in LatCases, o \in LongCases, c \in CoordinatesCases}
    \cup
    {Patch(NoDoors, [numberOfDoors |-> n, info |-> join(labels)]) :
        n \in {undefined} \cup {<<k>> : k \in 0..(MaxDoors + 1)},
        labels \in SeqsUpTo(Labels, MaxLabels)}

\* The JSON an endpoint may send: lists with and without the building, in
\* both shapes, the building or another one as {building: ...} and as a bare
\* object, the building under _id, an object that is no building, and every
\* record of the building
Jsons ==
    {Json(shape, records) :
        shape \in {"array", "buildings"},
        records \in {<<Record(2), Record(buildingId)>>, <<Record(2)>>}}
    \cup
    {Json(shape, <<record>>) :
        shape \in {"building", "object"},
        record \in {Record(buildingId), Record(2), NoRecord,
                    Patch(NoRecord, [_id |-> <<buildingId>>])}}
    \cup
    {Json("object", <<record>>) : record \in RawRecords}

NoJson == Json("none", <<>>)

\* The outcomes of a fetch
Outcomes ==
    {Fetched(kind, NoJson) : kind \in {"network", "status", "parse"}}
    \cup {Fetched("ok", json) : json \in Jsons}

NextLoad ==
    \/ LoadStart
    \/ \E fetched \in Outcomes : LoadAnswer(fetched)

SpecLoad == Init /\ [][NextLoad]_vars

----------------------------------------------------------------------------
(* The edit page (src/unnamed/part_001): the form and handleSave.  The     *)
(* page renders a BuildingForm whose Save button calls handleSave.  Time   *)
(* is counted in units of 500 ms.                                          *)

\* setTimeout(..., 2000) after a save that succeeded
SuccessDelay == 4

\* setTimeout(..., 5000) after a save that failed
ErrorDelay == 10

\* setTimeout(..., 1500) of the BuildingForm after onSave() returned true
FormSuccessDelay == 3

\* The clock of the model stops here
MaxTime == 11

\* No more PUT requests than this are sent
MaxSent == 4

\* The endpoints handleSave tries
putEndpoints == <<"/api/door/{id}", "/api/buildings/{id}">>

\* A pending setTimeout: what it will do ("clear" the error message, go
\* "back", "replace" the page by the home page, "push" the home page) and
\* when
Timer(kind, at) == [kind |-> kind, at |-> at]

\* isFormValid of the BuildingForm
isFormValid(formData) ==
    /\ formData.gps # <<>>
    /\ formData.language # <<>>
    /\ trim(formData.buildingAddress) # <<>>
    /\ formData.numberOfDoors > 0
    /\ \A i \in 1..Len(formData.addressInfo) :
           trim(formData.addressInfo[i]) # <<>>
    /\ Len(formData.addressInfo) = formData.numberOfDoors

\* The BuildingForm is rendered and takes input
FormShown ==
    /\ page.route = "edit"
    /\ page.isDataLoaded
    /\ page.position # NoPosition

\* formData.addressInfo.filter(info => info.trim())
validDoorInfo(formData) ==
    SelectSeq(formData.addressInfo, LAMBDA info : trim(info) # <<>>)

\* What handleSave answers before it sends anything: the message of the
\* check that fails, or none
Invalid(formData) ==
    IF trim(formData.buildingAddress) = <<>> THEN Error("address", 0)
    ELSE IF Len(validDoorInfo(formData)) = 0 /\ formData.numberOfDoors > 0
    THEN Error("doors", 0)
    ELSE IF /\ Len(validDoorInfo(formData)) # formData.numberOfDoors
            /\ formData.numberOfDoors > 0
    THEN Error("count", 0)
    ELSE NoError

\* apiData of handleSave
updateData(position, formData) ==
    [lat |-> position[1], long |-> position[2],
     language |-> formData.language,
     numberOfDoors |-> formData.numberOfDoors,
     info |-> join(validDoorInfo(formData)),
     address |-> trim(formData.buildingAddress)]

\* Lines 209-214, the effect on [formData, originalFormData, isDataLoaded]:
\* JSON.stringify(formData) !== JSON.stringify(originalFormData)
hasChanges(formData, originalFormData) == formData # originalFormData

\* setFormData(prev => ({...prev, ...})): formData is a new object, and the
\* effect runs after the render
setFormData(p, formData) ==
    [p EXCEPT !.formData = formData,
              !.formIsOriginal = FALSE,
              !.formIsClosure = FALSE,
              !.hasUnsavedChanges =
                  IF p.isDataLoaded
                  THEN hasChanges(formData, p.originalFormData) ELSE @]

\* handleFormChange('buildingAddress', value)
ChangeAddress(value) ==
    /\ FormShown
    /\ page' = setFormData(page, [page.formData EXCEPT
                                     !.buildingAddress = value])
    /\ UNCHANGED <<Building, Door, nextId, now, pc, req, resp, deleted, failed, client, pin, marker, load, save, timers>>

\* handleFormChange('addressInfo', value, index)
ChangeAddressInfo(index, value) ==
    /\ FormShown
    /\ page.formData.numberOfDoors > 0
    /\ index \in 1..Len(page.formData.addressInfo)
    /\ page' = setFormData(page, [page.formData EXCEPT
                                     !.addressInfo[index] = value])
    /\ UNCHANGED <<Building, Door, nextId, now, pc, req, resp, deleted, failed, client, pin, marker, load, save, timers>>

\* The buttons - and +: handleFormChange('numberOfDoors', value)
ChangeNumberOfDoors(value) ==
    /\ FormShown
    /\ value \in {Max(0, page.formData.numberOfDoors - 1),
                  page.formData.numberOfDoors + 1}
    /\ value # page.formData.numberOfDoors
    /\ value <= MaxDoors
    /\ LET newDoorCount == Max(0, value)
           old == page.formData.addressInfo
           updatedAddresses ==
               SubSeq(old \o [i \in 1..(newDoorCount - Len(old)) |-> <<>>],
                      1, newDoorCount)
       IN  page' = setFormData(page, [page.formData EXCEPT
                                         !.numberOfDoors = newDoorCount,
                                         !.addressInfo = updatedAddresses])
    /\ UNCHANGED <<Building, Door, nextId, now, pc, req, resp, deleted, failed, client, pin, marker, load, save, timers>>

\* handleGpsChange(newGps): the text is kept, and when it shows two numbers
\* they become the position
handleGpsChange(newGps) ==
    /\ FormShown
    /\ page' = [setFormData(page, [page.formData EXCEPT !.gps = newGps])
                   EXCEPT
                   !.position = IF /\ newGps # <<>>
                                   /\ newGps[1] # undefined
                                   /\ newGps[2] # undefined
                                THEN <<newGps[1][1], newGps[2][1]>>
                                ELSE @]
    /\ UNCHANGED <<Building, Door, nextId, now, pc, req, resp, deleted, failed, client, pin, marker, load, save, timers>>

\* The Save button, enabled unless isLoading || !isFormValid(): handleSave of
\* the form calls handleSave of the page, which refuses with a message or
\* sets isLoading and awaits the PUT to the first endpoint
Save ==
    /\ FormShown
    /\ ~page.isLoading
    /\ isFormValid(page.formData)
    /\ save.sent + Len(putEndpoints) <= MaxSent
    /\ IF Invalid(page.formData) # NoError
       THEN /\ page' = [page EXCEPT !.formSuccess = FALSE,
                                    !.errorMessage = Invalid(page.formData),
                                    !.showErrorMessage = TRUE]
            /\ save' = save
       ELSE /\ page' = [page EXCEPT !.formSuccess = FALSE,
                                    !.isLoading = TRUE,
                                    !.showErrorMessage = FALSE,
                                    !.errorMessage = NoError,
                                    !.formIsClosure = TRUE]
            /\ save' = [save EXCEPT
                           !.at = "fetching", !.endpoint = 1,
                           !.lastError = NoError,
                           !.formData = <<page.formData>>,
                           !.closureIsOriginal = page.formIsOriginal,
                           !.inflight = @ + 1,
                           !.sent = @ + 1,
                           !.apiData = <<updateData(page.position,
                                                    page.formData)>>]
    /\ UNCHANGED <<Building, Door, nextId, now, pc, req, resp, deleted, failed, client, pin, marker, load, timers>>

\* The awaited PUT settles: ok, a status that is not ok, or a rejected
\* fetch.  handleSave ends in success, goes on to the next endpoint, or ends
\* in failure; its locals are gone when it ends.
SaveAnswer(kind) ==
    /\ save.at = "fetching"
    /\ LET endpoint == save.endpoint
           lastError == Error(kind, endpoint)
       IN  IF kind = "ok"
           THEN /\ save' = [save EXCEPT !.at = "idle", !.endpoint = 0,
                                        !.apiData = <<>>,
                                        !.lastError = NoError,
                                        !.formData = <<>>,
                                        !.closureIsOriginal = FALSE,
                                        !.inflight = @ - 1,
                                        !.saved = save.sent]
                /\ page' = [page EXCEPT
                               !.showSuccessMessage = TRUE,
                               !.isLoading = FALSE,
                               !.formSuccess = TRUE,
                               !.originalFormData = save.formData[1],
                               !.formIsOriginal = page.formIsClosure,
                               !.formIsClosure = FALSE,
                               !.hasUnsavedChanges =
                                   IF save.closureIsOriginal THEN FALSE
                                   ELSE hasChanges(page.formData,
                                                   save.formData[1])]
                /\ timers' = timers \cup
                       {Timer("back", now + SuccessDelay),
                        Timer("replace", now + FormSuccessDelay)}
           ELSE IF endpoint < Len(putEndpoints)
           THEN /\ save' = [save EXCEPT !.endpoint = endpoint + 1,
                                        !.lastError = lastError,
                                        !.sent = @ + 1]
                /\ page' = page
                /\ timers' = timers
           ELSE /\ save' = [save EXCEPT !.at = "idle", !.endpoint = 0,
                                        !.apiData = <<>>,
                                        !.lastError = NoError,
                                        !.formData = <<>>,
                                        !.closureIsOriginal = FALSE,
                                        !.inflight = @ - 1,
                                        !.failedAt = <<now>>]
                /\ page' = [page EXCEPT !.errorMessage = lastError,
                                        !.showErrorMessage = TRUE,
                                        !.isLoading = FALSE,
                                        !.formIsClosure = FALSE]
                /\ timers' = timers \cup {Timer("clear", now + ErrorDelay)}
    /\ UNCHANGED <<Building, Door, nextId, now, pc, req, resp, deleted, failed, client, pin, marker, load>>

\* handleMapMoveEnd(lat, lng): the centre of the map is the position, and
\* the text of gps is `${lat.toFixed(6)}, ${lng.toFixed(6)}`
handleMapMoveEnd(lat, lng) ==
    /\ FormShown
    /\ page' = [setFormData(page, [page.formData EXCEPT
                                      !.gps = <<<<lat>>, <<lng>>>>])
                   EXCEPT !.position = <<lat, lng>>]
    /\ UNCHANGED <<Building, Door, nextId, now, pc, req, resp, deleted, failed, client, pin, marker, load, save, timers>>

\* The Reset button, enabled unless !hasUnsavedChanges, and confirm()
\* answered yes: formData is the object originalFormData, the position that
\* of the record as it was loaded
handleReset ==
    /\ FormShown
    /\ page.hasUnsavedChanges
    /\ LET data == page.originalData
       IN  page' = [page EXCEPT
                      !.formData = page.originalFormData,
                      !.formIsOriginal = TRUE,
                      !.formIsClosure = save.at = "fetching"
                                           /\ save.closureIsOriginal,
                      !.hasUnsavedChanges = FALSE,
                      !.position =
                          IF /\ data # undefined
                             /\ data[1]["lat"] # undefined
                             /\ data[1]["long"] # undefined
                          THEN <<data[1]["lat"][1], data[1]["long"][1]>>
                          ELSE @]
    /\ UNCHANGED <<Building, Door, nextId, now, pc, req, resp, deleted, failed, client, pin, marker, load, save, timers>>

\* The Close button of the error message
Close ==
    /\ page.route = "edit"
    /\ page.showErrorMessage
    /\ page' = [page EXCEPT !.showErrorMessage = FALSE]
    /\ UNCHANGED <<Building, Door, nextId, now, pc, req, resp, deleted, failed, client, pin, marker, load, save, timers>>

\* The callback of a setTimeout runs, its delay over
Timeout(t) ==
    /\ t \in timers
    /\ t.at <= now
    /\ timers' = timers \ {t}
    /\ page' = IF t.kind = "clear"
               THEN [page EXCEPT !.showErrorMessage = FALSE]
               ELSE IF t.kind = "back"
               THEN [page EXCEPT !.showSuccessMessage = FALSE,
                                 !.route = "back"]
               ELSE IF t.kind = "replace"
               THEN [page EXCEPT !.formSuccess = FALSE, !.route = "home"]
               ELSE [page EXCEPT !.route = "home"]
    /\ UNCHANGED <<Building, Door, nextId, now, pc, req, resp, deleted, failed, client, pin, marker, load, save>>

\* 500 ms pass while a setTimeout is pending; a callback that is due runs
\* before more time passes
Elapse ==
    /\ now < MaxTime
    /\ timers # {}
    /\ \A t \in timers : t.at > now
    /\ now' = now + 1
    /\ UNCHANGED <<Building, Door, nextId, pc, req, resp, deleted, failed, client, pin, marker, pageVars>>

\* What the user may type for the address and for a label: nothing or a
\* text; and for gps: '95.000000, 200.000000' or '12.500000, 77.250000'
TypedAddress == {<<>>, <<"A">>}

TypedLabel == {<<>>, <<"a">>}

\* Where the user may move the map to: 13, 80
MapCentres == {<<Deg(13), Deg(80)>>}

TypedGps ==
    {<<<<Deg(95)>>, <<Deg(200)>>>>,
     <<<<Deg(12) + 500000>>, <<Deg(77) + 250000>>>>}

\* The page has loaded the building
InitSave ==
    /\ Building = <<>>
    /\ Door = [id \in Ids |-> <<>>]
    /\ nextId = 1
    /\ now = 0
    /\ pc = [p \in Procs |-> "idle"]
    /\ req = [p \in Procs |-> NoReq]
    /\ resp = NoResp
    /\ deleted = {}
    /\ failed = FALSE
    /\ client = NoDraft
    /\ pin = NoPin
    /\ marker = NoMarker
    /\ page = [InitialPage EXCEPT
                  !.position = positionOf(Record(buildingId)),
                  !.formData = initialFormData(Record(buildingId)),
                  !.originalFormData = initialFormData(Record(buildingId)),
                  !.originalData = <<Record(buildingId)>>,
                  !.isDataLoaded = TRUE]
    /\ load = [NoLoad EXCEPT
                  !.at = "done", !.endpoint = 1, !.requested = <<1>>,
                  !.found = 1, !.held = TRUE,
                  !.data = <<Record(buildingId)>>,
                  !.infoArray = infoArrayOf(Record(buildingId))]
    /\ save = NoSave
    /\ timers = {}

NextSave ==
    \/ \E value \in TypedAddress : ChangeAddress(value)
    \/ \E index \in 1..MaxDoors, value \in TypedLabel :
           ChangeAddressInfo(index, value)
    \/ \E value \in 0..MaxDoors : ChangeNumberOfDoors(value)
    \/ \E newGps \in TypedGps : handleGpsChange(newGps)
    \/ handleReset
    \/ Save
    \/ \E kind \in {"ok", "status", "network"} : SaveAnswer(kind)
    \/ Close
    \/ \E t \in timers : Timeout(t)
    \/ Elapse

SpecSave == InitSave /\ [][NextSave]_vars

----------------------------------------------------------------------------
(* The BuildingForm of src/unnamed/part_005, in edit mode: its Save button *)
(* calls its own handleSave, which sends the request itself and never      *)
(* calls onSave; isLoading is the prop of the page.                        *)

\* setTimeout(..., 3000) after a save that succeeded
FormReplaceDelay == 6

\* isFormValid of this form: the gps text shows two numbers in range
isFormValidInRange(formData) ==
    /\ formData.gps # <<>>
    /\ formData.gps[1] # undefined
    /\ formData.gps[2] # undefined
    /\ InRange(formData.gps[1][1], formData.gps[2][1])
    /\ formData.language # <<>>
    /\ trim(formData.buildingAddress) # <<>>
    /\ formData.numberOfDoors > 0
    /\ Len(formData.addressInfo) = formData.numberOfDoors
    /\ \A i \in 1..Len(formData.addressInfo) :
           trim(formData.addressInfo[i]) # <<>>

\* payload of handleSave
payload(formData) ==
    [lat |-> formData.gps[1][1], long |-> formData.gps[2][1],
     language |-> formData.language,
     numberOfDoors |-> formData.numberOfDoors,
     info |-> join(formData.addressInfo),
     address |-> formData.buildingAddress]

\* The Save button, enabled unless isLoading || !isFormValid(): handleSave
\* sends the PUT and awaits the answer
FormSave ==
    /\ FormShown
    /\ ~page.isLoading
    /\ isFormValidInRange(page.formData)
    /\ save.sent < MaxSent
    /\ save' = [save EXCEPT !.sent = @ + 1, !.inflight = @ + 1,
                            !.apiData = <<payload(page.formData)>>]
    /\ UNCHANGED <<Building, Door, nextId, now, pc, req, resp, deleted, failed, client, pin, marker, page, load, timers>>

\* The awaited fetch of one handleSave settles: the success message and the
\* delayed router.replace, or an alert
FormAnswer(kind) ==
    /\ save.inflight > 0
    /\ save' = [save EXCEPT !.inflight = @ - 1,
                            !.apiData = IF save.inflight = 1 THEN <<>> ELSE @,
                            !.saved = IF kind = "ok" THEN save.sent ELSE @]
    /\ IF kind = "ok"
       THEN /\ page' = [page EXCEPT !.formSuccess = TRUE]
            /\ timers' = timers \cup {Timer("replace", now + FormReplaceDelay)}
       ELSE /\ page' = page
            /\ timers' = timers
    /\ UNCHANGED <<Building, Door, nextId, now, pc, req, resp, deleted, failed, client, pin, marker, load>>

NextForm ==
    \/ \E value \in TypedAddress : ChangeAddress(value)
    \/ \E index \in 1..MaxDoors, value \in TypedLabel :
           ChangeAddressInfo(index, value)
    \/ \E value \in 0..MaxDoors : ChangeNumberOfDoors(value)
    \/ \E newGps \in TypedGps : handleGpsChange(newGps)
    \/ FormSave
    \/ \E kind \in {"ok", "status", "network"} : FormAnswer(kind)
    \/ \E t \in timers : Timeout(t)
    \/ Elapse

SpecForm == InitSave /\ [][NextForm]_vars

----------------------------------------------------------------------------
(* The edit page (src/unnamed/part_001) from its load to its delete        *)

\* The endpoints handleDelete tries
deleteEndpoints == <<"/api/door/{id}", "/api/buildings/{id}">>

\* The Delete button of the header, enabled unless isDeleting
AskDelete ==
    /\ FormShown
    /\ ~page.isDeleting
    /\ ~page.showDeleteConfirm
    /\ page' = [page EXCEPT !.showDeleteConfirm = TRUE]
    /\ UNCHANGED <<Building, Door, nextId, now, pc, req, resp, deleted, failed, client, pin, marker, load, save, timers>>

\* The Delete button of the confirmation, enabled unless isDeleting:
\* handleDelete sets isDeleting and awaits the DELETE to the first endpoint
handleDelete ==
    /\ page.route = "edit"
    /\ page.showDeleteConfirm
    /\ ~page.isDeleting
    /\ page' = [page EXCEPT !.isDeleting = TRUE, !.errorMessage = NoError]
    /\ save' = [save EXCEPT !.delete = [at |-> "fetching", endpoint |-> 1,
                                        lastError |-> NoError, sent |-> 1]]
    /\ UNCHANGED <<Building, Door, nextId, now, pc, req, resp, deleted, failed, client, pin, marker, load, timers>>

\* The awaited DELETE settles.  handleDelete ends in success, goes on to the
\* next endpoint, or ends in failure; its finally block clears isDeleting
\* and closes the confirmation.
DeleteAnswer(kind) ==
    /\ save.delete.at = "fetching"
    /\ LET endpoint == save.delete.endpoint
           lastError == Error(kind, endpoint)
       IN  IF kind = "ok"
           THEN /\ save' = [save EXCEPT !.delete.at = "done"]
                /\ page' = [page EXCEPT !.showSuccessMessage = TRUE,
                                        !.isDeleting = FALSE,
                                        !.showDeleteConfirm = FALSE]
                /\ timers' = timers \cup {Timer("push", now + SuccessDelay)}
           ELSE IF endpoint < Len(deleteEndpoints)
           THEN /\ save' = [save EXCEPT !.delete.endpoint = endpoint + 1,
                                        !.delete.lastError = lastError,
                                        !.delete.sent = @ + 1]
                /\ page' = page
                /\ timers' = timers
           ELSE /\ save' = [save EXCEPT !.delete.at = "idle",
                                        !.delete.lastError = lastError]
                /\ page' = [page EXCEPT !.errorMessage = lastError,
                                        !.showErrorMessage = TRUE,
                                        !.isDeleting = FALSE,
                                        !.showDeleteConfirm = FALSE]
                /\ timers' = timers \cup {Timer("clear", now + ErrorDelay)}
    /\ UNCHANGED <<Building, Door, nextId, now, pc, req, resp, deleted, failed, client, pin, marker, load>>

\* What a fetch of the load may settle as: a status that is not ok, and the
\* record of the building
EditOutcomes ==
    {Fetched("status", NoJson),
     Fetched("ok", Json("object", <<Record(buildingId)>>))}

\* What a PUT and a DELETE may settle as
AnswerKinds == {"ok", "status"}

NextEdit ==
    \/ LoadStart
    \/ \E fetched \in EditOutcomes : LoadAnswer(fetched)
    \/ \E value \in TypedAddress : ChangeAddress(value)
    \/ \E centre \in MapCentres : handleMapMoveEnd(centre[1], centre[2])
    \/ handleReset
    \/ Save
    \/ \E kind \in AnswerKinds : SaveAnswer(kind)
    \/ Close
    \/ AskDelete
    \/ handleDelete
    \/ \E kind \in AnswerKinds : DeleteAnswer(kind)

SpecEdit == Init /\ [][NextEdit]_vars

\* Every request issued is answered
FairEdit ==
    /\ SpecEdit
    /\ WF_vars(\E fetched \in EditOutcomes : LoadAnswer(fetched))
    /\ WF_vars(\E kind \in AnswerKinds : SaveAnswer(kind))
    /\ WF_vars(\E kind \in AnswerKinds : DeleteAnswer(kind))

----------------------------------------------------------------------------
(* The edit page of src/frontend/src/app/building/new/page.tsx (lines 209  *)
(* to 860): how its loadBuildingData makes the draft of the data its loop  *)
(* over the endpoints ended with.  Its handleFormChange (616-645) changes  *)
(* the draft as that of part_001 does.                                     *)

\* JS s.split(', ')
RECURSIVE splitCommaSpace(_)
splitCommaSpace(s) ==
    IF \A i \in 1..(Len(s) - 1) : ~(s[i] = "," /\ s[i + 1] = " ") THEN <<s>>
    ELSE LET k == CHOOSE i \in 1..(Len(s) - 1) :
                      /\ s[i] = "," /\ s[i + 1] = " "
                      /\ \A j \in 1..(i - 1) : ~(s[j] = "," /\ s[j + 1] = " ")
         IN  <<SubSeq(s, 1, k - 1)>>
                 \o splitCommaSpace(SubSeq(s, k + 2, Len(s)))

\* Lines 343-363: lat and long, the first truthy of the names; when one of
\* them is missing both are looked up in coordinates, and when one is
\* missing still both are the default location
coordinatesFromAPI(data) ==
    LET lat == OrElse(data["lat"], OrElse(data["latitude"],
                   OrElse(data["Lat"], data["Latitude"])))
        long == OrElse(data["long"], OrElse(data["lng"],
                    OrElse(data["longitude"], OrElse(data["Long"],
                        OrElse(data["Lng"], data["Longitude"])))))
        c == data["coordinates"]
        nested == (lat = undefined \/ long = undefined) /\ c # undefined
        lat2 == IF nested
                THEN OrElse(c[1]["lat"], OrElse(c[1]["latitude"], c[1]["lng"]))
                ELSE lat
        long2 == IF nested
                 THEN OrElse(c[1]["long"],
                             OrElse(c[1]["lng"], c[1]["longitude"]))
                 ELSE long
    IN  IF lat2 = undefined \/ long2 = undefined
        THEN <<defaultLat, defaultLong>>
        ELSE <<lat2[1], long2[1]>>

\* Lines 391-407: formDataFromAPI.  The labels are padded up to
\* numberOfDoors and never cut down to it.
formDataFromAPI(data) ==
    LET numberOfDoors == OrElse(data["numberOfDoors"], <<1>>)[1]
        labels == IF data["info"] # <<>>
                  THEN SelectSeq(splitCommaSpace(data["info"]),
                                 LAMBDA info : trim(info) # <<>>)
                  ELSE <<<<>>>>
        atLeastOne == IF Len(labels) = 0 THEN <<<<>>>> ELSE labels
    IN  FormData(<<<<coordinatesFromAPI(data)[1]>>,
                   <<coordinatesFromAPI(data)[2]>>>>,
                 IF data["language"] # <<>> THEN data["language"]
                 ELSE <<"English">>,
                 numberOfDoors,
                 atLeastOne \o [i \in 1..(numberOfDoors - Len(atLeastOne))
                                   |-> <<>>],
                 data["address"])

\* loadBuildingData whose loop ended with data: coordinates out of range
\* throw (lines 374-380), and otherwise the draft is set (389-412)
loadBuildingDataFromAPI(data) ==
    /\ page.route = "edit"
    /\ load.at = "idle"
    /\ load' = [load EXCEPT !.at = "done", !.data = <<data>>]
    /\ LET position == coordinatesFromAPI(data)
       IN  IF InRange(position[1], position[2])
           THEN page' = [page EXCEPT
                            !.originalData =
                                <<Patch(data, [lat |-> <<position[1]>>,
                                               long |-> <<position[2]>>])>>,
                            !.formData = formDataFromAPI(data),
                            !.originalFormData = formDataFromAPI(data),
                            !.formIsOriginal = TRUE,
                            !.position = position,
                            !.isDataLoaded = TRUE]
           ELSE page' = [page EXCEPT !.errorMessage = Error("range", 0),
                                     !.showErrorMessage = TRUE]
    /\ UNCHANGED <<Building, Door, nextId, now, pc, req, resp, deleted, failed, client, pin, marker, save, timers>>

NextDraft ==
    \/ \E data \in RawRecords : loadBuildingDataFromAPI(data)
    \/ \E value \in TypedAddress : ChangeAddress(value)
    \/ \E index \in 1..(MaxDoors + 1), value \in TypedLabel :
           ChangeAddressInfo(index, value)
    \/ \E value \in 0..MaxDoors : ChangeNumberOfDoors(value)

SpecDraft == Init /\ [][NextDraft]_vars

----------------------------------------------------------------------------
(* Properties *)

\* Slot q is handling a request for building id that began when the
\* building had Door rows
Handling(q, op, id) == req[q].op = op /\ req[q].id = id /\ req[q].had

NoComma(labels) ==
    \A i \in 1..Len(labels) : \A j \in 1..Len(labels[i]) : labels[i][j] # ","

\* The number of Door rows of building id whose label is not empty
Labelled(id) == Cardinality({i \in 1..Len(Door[id]) : LabelsOf(id)[i] # NULL})

\* C1: a GET of a building answered while a PUT of that building is being
\* handled (the building had doors when the PUT began) never reports zero
\* doors.
C1_ReaderSeesDoorsDuringUpdate ==
    (/\ resp.op = "GET"
     /\ resp.status = 200
     /\ \E q \in Procs : Handling(q, "PUT", resp.id))
    => resp.numberOfDoors > 0

\* C2: once a POST has been answered, with success or with failure, the
\* building it inserted, if it is stored, has at least one door.
C2_CreateLeavesNoBuildingWithoutDoors ==
    (resp.op = "POST" /\ resp.status \in {201, 500} /\ Stored(resp.id))
    => Len(Door[resp.id]) > 0

\* C3: when a PUT of building X is answered 200, the doors of X carry
\* exactly the labels of the request, in order; the doors beyond the labels,
\* which the declared door count may add, carry an empty label.
C3_UpdateLeavesExactlyNewLabels ==
    (resp.op = "PUT" /\ resp.status = 200 /\ resp.had)
    => LET L == doorInfoArray(resp.body.info)
           n == Len(Door[resp.id])
       IN  /\ n \in {Len(L), Max(resp.body.numberOfDoors, Len(L))}
           /\ \A i \in 1..n :
                  LabelsOf(resp.id)[i] = IF i <= Len(L) THEN L[i] ELSE NULL

\* C4: a building whose DELETE was answered 200 is never stored again, no
\* Door row references it and every GET of it is answered 404, in every
\* later state.
C4_DeletedStaysDeleted ==
    /\ \A x \in deleted : ~Stored(x) /\ Door[x] = <<>>
    /\ (resp.op = "GET" /\ resp.id \in deleted) => resp.status = 404

\* C4 happens: building X was deleted, a later create stored another
\* building, and an update of X that was under way failed.
C4_Witness ==
    /\ resp.op = "PUT" /\ resp.status = 500 /\ resp.id \in deleted
    /\ \E y \in DOMAIN Building : y > resp.id

\* C5: a GET of a building answered while a DELETE of it is being handled
\* never reports zero doors, and a DELETE that failed leaves the building,
\* if it is stored, with its doors.
C5_DeleteIsAllOrNothing ==
    /\ (/\ resp.op = "GET"
        /\ resp.status = 200
        /\ \E q \in Procs : Handling(q, "DELETE", resp.id))
       => resp.numberOfDoors > 0
    /\ (resp.op = "DELETE" /\ resp.status = 500 /\ resp.had /\ Stored(resp.id))
       => Len(Door[resp.id]) > 0

\* C6: a draft whose position is out of range is rejected with status 400
\* and inserts no Building row and no Door row.
C6_OutOfRangeIsRejected ==
    ~InRange(client.lat, client.long)
    => /\ Building = <<>>
       /\ \A id \in Ids : Door[id] = <<>>
       /\ resp.op = "POST" => resp.status = 400

\* C7: when a PUT of building X is answered 200, no other request for X is
\* being handled and no PUT has failed, X holds exactly what that PUT
\* wrote: its scalars and its doors, nothing of another PUT.
C7_LaterCommitWins ==
    (/\ resp.op = "PUT" /\ resp.status = 200 /\ resp.had
     /\ ~failed
     /\ \A q \in Procs : req[q].id # resp.id)
    => /\ Building[resp.id] = PutBuildingRow(Building[resp.id], resp.body)
       /\ Door[resp.id] = PutDoors(resp.body, resp.id)

C9_LabelledDoorsEqualDoorCount ==
    \A id \in DOMAIN Building :
        \/ Labelled(id) = client.numberOfDoors
        \/ Labelled(id) = Len(Door[id])

\* C10: a GET answered 200 for the building created from a draft in range
\* returns exactly the latitude and longitude of the draft.
C10_CreateThenGetReturnsCoordinates ==
    (resp.op = "GET" /\ resp.status = 200 /\ InRange(client.lat, client.long))
    => /\ SameNumber(resp.lat, client.lat)
       /\ SameNumber(resp.long, client.long)

\* C11: a PUT of an id under which no Building was ever stored, whose body
\* passes the checks of the handler, is answered 404.
C11_UpdateOfAbsentIsNotFound ==
    (resp.op = "PUT" /\ resp.id >= nextId /\ resp.status # 400)
    => resp.status = 404

\* C12: a DELETE of an id under which no Building was ever stored is
\* answered 404.
C12_DeleteOfAbsentIsNotFound ==
    (resp.op = "DELETE" /\ resp.id >= nextId) => resp.status = 404

C14_ListIsTheRecentWindow ==
    (resp.op \in {"GETView", "GETLanguages"} /\ \A p \in Procs : pc[p] = "idle")
    => {r.id : r \in resp.rows} = {id \in DOMAIN Building : InWindow(id)}

\* C15: in every row of the list, info is the non-empty labels of the
\* building's doors, in order, joined with ", ".
C15_ListInfoIsJoinedLabels ==
    resp.op = "GETView"
    => \A r \in resp.rows :
           r.info = join(SelectSeq(LabelsOf(r.id), LAMBDA x : x # NULL))

\* C16: the server and the map compute the same colour for the
\* congregationId and the language of every pin.
C16_ServerAndMapAgree ==
    marker # NoMarker => marker.server = marker.map

\* C17: the colour the server computes and the colour the map computes are
\* the colour of the rule: the base of the language for congregation 1, else
\* raw = (congregationId - 1) * 5 + base, wrapped as ((raw - 1) mod 15) + 1
\* above 15.
C17_ColorFollowsTheRule ==
    marker # NoMarker
    => LET base == defaultLanguagePinMap(pin.language)
           raw == (pin.congregationId - 1) * 5 + base
           rule == IF pin.congregationId = 1 THEN base
                   ELSE IF raw > 15 THEN ((raw - 1) % 15) + 1
                   ELSE raw
       IN  marker.server = rule /\ marker.map = rule

C19_PinImagePriority ==
    marker # NoMarker
    => IF pin.pinImage # NULL THEN marker.image = pin.pinImage
       ELSE IF pin.pinColor # 0 THEN marker.image = PinPath(pin.pinColor)
       ELSE IF pin.language # "" /\ pin.congregationId # 0
       THEN marker.image =
                PinPath(calculatePinColorMap(pin.congregationId,
                                             pin.language))
       ELSE \E c \in 1..15 : marker.image = PinPath(c)

\* C19 happens: the marker of a pin with both a pinImage and a pinColor was
\* drawn.
C19_Witness ==
    marker # NoMarker /\ pin.pinImage # NULL /\ pin.pinColor # 0

\* C20: in every row of the list that has doors, pinColor is the Color of
\* the Language row of the row's congregationId and language when there is
\* one, else the colour computed for them, and pinImage is the path of that
\* colour.
C20_ListClassification ==
    resp.op = "GETPins"
    => \A r \in resp.rows :
           r.congregationId # 0
           => LET ls == {l \in Language : l.id_cong_app = r.congregationId
                                          /\ l.name = r.language}
                  c == IF ls # {} THEN (CHOOSE l \in ls : TRUE).Color
                       ELSE calculatePinColorServer(r.congregationId,
                                                    r.language)
              IN  r.pinColor = c /\ r.pinImage = PinPath(c)

\* The values a record holds for the latitude, in the order of the names
\* lat, latitude, Lat, Latitude, at the top and then under coordinates
Latitudes(data) ==
    <<data["lat"], data["latitude"], data["Lat"], data["Latitude"]>>
    \o (IF data["coordinates"] = undefined THEN <<>>
        ELSE <<data["coordinates"][1]["lat"],
               data["coordinates"][1]["latitude"]>>)

\* The same for the longitude: long, lng, longitude, Long, Lng, Longitude
Longitudes(data) ==
    <<data["long"], data["lng"], data["longitude"], data["Long"],
      data["Lng"], data["Longitude"]>>
    \o (IF data["coordinates"] = undefined THEN <<>>
        ELSE <<data["coordinates"][1]["long"],
               data["coordinates"][1]["lng"],
               data["coordinates"][1]["longitude"]>>)

\* The first of values that is a number within [-bound, bound], if any
FirstWithin(values, bound) ==
    LET ok(i) == /\ values[i] # undefined
                 /\ -bound <= values[i][1] /\ values[i][1] <= bound
    IN  IF \E i \in 1..Len(values) : ok(i)
        THEN values[CHOOSE i \in 1..Len(values) :
                        ok(i) /\ \A j \in 1..(i - 1) : ~ok(j)]
        ELSE undefined

\* The page has loaded a record
HasLoaded == load.at = "done" /\ load.data # undefined

\* Some latitude and some longitude of the loaded record are in range
HasValidCombination ==
    /\ FirstWithin(Latitudes(load.data[1]), Deg(90)) # undefined
    /\ FirstWithin(Longitudes(load.data[1]), Deg(180)) # undefined

\* The page tells its user that something is to be corrected: an error
\* message, or the alert it renders while it has no position
NeedsCorrection ==
    \/ page.showErrorMessage
    \/ page.errorMessage # NoError
    \/ page.position = NoPosition

\* The labels are not empty and have no blank at either end
Trimmed(labels) ==
    \A i \in 1..Len(labels) : labels[i] # <<>> /\ trim(labels[i]) = labels[i]

\* C21 (as stated): for every list x of labels without a comma, the compact
\* decoding of the encoded list is x: a page that loads a record whose info is
\* x joined with ', ' has x as its infoArray.
C21_DecodeInvertsEncode ==
    HasLoaded =>
        \A x \in SeqsUpTo(Labels, MaxLabels) :
            (NoComma(x) /\ load.data[1]["info"] = join(x))
                => load.infoArray = x

\* C21 (amended): the same for every list x of at least one label, each
\* without a comma, not empty and with no blank at either end.
C21_DecodeInvertsEncodeOfTrimmed ==
    HasLoaded =>
        \A x \in SeqsUpTo(Labels, MaxLabels) :
            (/\ x # <<>>
             /\ NoComma(x)
             /\ Trimmed(x)
             /\ load.data[1]["info"] = join(x))
                => load.infoArray = x

\* A record whose info is 'a, b' has been loaded as the labels a and b
C21_Witness ==
    /\ HasLoaded
    /\ load.data[1]["info"] = join(<< <<"a">>, <<"b">> >>)
    /\ load.infoArray = << <<"a">>, <<"b">> >>

\* C22: the candidates are requested in the order of the list, one at a time
\* (at most one request awaits its answer), and none is requested after the
\* first whose answer gave a usable record.
C22_CandidatesOneAtATimeInOrder ==
    /\ Cardinality(load.inflight) <= 1
    /\ \A i \in 1..Len(load.requested) : load.requested[i] = i
    /\ load.found # 0 => Len(load.requested) = load.found

\* The first two candidates failed and the third gave the record
C22_Witness ==
    /\ load.at = "done"
    /\ load.found = 3
    /\ load.lastError = Error("status", 2)

\* C23: an error is raised only when every candidate has been requested and
\* has answered, and it carries the cause of the last candidate that failed:
\* the error of the last candidate of the list, or, when that one failed for
\* holding no matching record and no candidate failed otherwise, the page's
\* own "not found".
C23_RaisesTheLastCause ==
    load.thrown # <<>> =>
        /\ Len(load.requested) = Len(possibleEndpoints)
        /\ load.inflight = {}
        /\ \/ load.thrown[1].endpoint = Len(possibleEndpoints)
           \/ load.thrown[1].kind = "none"

\* C24: when an answer held the record of the requested id, in any of the
\* four shapes, that record is the one loaded; a record that is loaded has
\* the requested id; and when no answer held it, the load fails.
C24_LoadedRecordHasTheRequestedId ==
    /\ load.data # undefined => IsBuilding(load.data[1], buildingId)
    /\ (load.at = "done" /\ load.held) => load.data # undefined
    /\ (load.at = "done" /\ ~load.held) => load.thrown # <<>>

\* C25: when some latitude and some longitude of the loaded record are
\* numbers in range, the position is the first such latitude and the first
\* such longitude in the order of the names, 0 included, and not the default
\* location.
C25_FirstValidCombinationWins ==
    (HasLoaded /\ HasValidCombination) =>
        page.position =
            <<FirstWithin(Latitudes(load.data[1]), Deg(90))[1],
              FirstWithin(Longitudes(load.data[1]), Deg(180))[1]>>

\* C26: when no latitude or no longitude of the loaded record is in range,
\* the load does not fail, the position is the default location, the page
\* tells that the position is to be corrected, and language, door count,
\* labels and address are loaded from the record.
C26_DefaultLocationIsMarked ==
    (HasLoaded /\ ~HasValidCombination) =>
        /\ load.thrown = <<>>
        /\ page.position = <<defaultLat, defaultLong>>
        /\ NeedsCorrection
        /\ load.data[1]["language"] \in {undefined, page.formData.language}
        /\ page.formData.buildingAddress = load.data[1]["address"]
        /\ load.data[1]["numberOfDoors"]
               \in {undefined, <<page.formData.numberOfDoors>>}
        /\ \A i \in 1..Len(compact(load.data[1]["info"])) :
               i <= Len(page.formData.addressInfo)
                   => page.formData.addressInfo[i]
                          = compact(load.data[1]["info"])[i]

\* C27: the labels of the form are exactly N slots, N the door count of the
\* loaded record, or the number of labels its info decodes to when it has no
\* count: the decoded labels in order, then empty strings, cut at N.
C27_ExactlyNSlots ==
    HasLoaded =>
        LET labels == compact(load.data[1]["info"])
            N == IF load.data[1]["numberOfDoors"] # undefined
                 THEN load.data[1]["numberOfDoors"][1]
                 ELSE Len(labels)
        IN  page.formData.addressInfo =
                [i \in 1..N |-> IF i <= Len(labels) THEN labels[i] ELSE <<>>]

\* C28: no save request is sent unless the draft it is made of is valid: the
\* address is not empty, the coordinates are within [-90, 90] x [-180, 180],
\* and the labels that are not empty are as many as the declared doors.
C28_NoRequestWithoutValidation ==
    save.at = "fetching" =>
        /\ save.apiData[1].address # <<>>
        /\ InRange(save.apiData[1].lat, save.apiData[1].long)
        /\ Len(compact(save.apiData[1].info)) = save.apiData[1].numberOfDoors

\* C29: once a save has succeeded, the session is not saving again and no
\* further write request is sent.
C29_SavedIsTerminal ==
    save.saved # 0 =>
        /\ save.sent = save.saved
        /\ save.at = "idle"
        /\ ~page.isLoading

\* C30: when a save fails, the error is shown and the busy flag is cleared;
\* and the timer that clears a shown error message runs no sooner than the
\* fixed delay after the failure the message is of.
C30_ErrorClearsAfterItsOwnDelay ==
    [][/\ save'.failedAt # save.failedAt
           => page'.showErrorMessage /\ ~page'.isLoading
       /\ \A t \in timers :
              (Timeout(t) /\ t.kind = "clear" /\ page.showErrorMessage)
                  => now >= save.failedAt[1] + ErrorDelay]_vars

\* C31: once the record is loaded, hasUnsavedChanges is true exactly when
\* formData differs from originalFormData, the draft as it was last saved.
C31_DirtyExactlyWhenDraftDiffers ==
    (page.isDataLoaded /\ page.route = "edit")
        => (page.hasUnsavedChanges
                <=> hasChanges(page.formData, page.originalFormData))

\* C32: every Door row of the store has a building_id that is an id, not
\* NULL, and is the idBuilding of a Building row of the store, the one it was written
\* for.
C32_DoorsReferTheirBuilding ==
    \A id \in DOMAIN Door :
        \A i \in 1..Len(Door[id]) :
            /\ Door[id][i].building_id \in Ids
            /\ Door[id][i].building_id = id
            /\ Stored(Door[id][i].building_id)

\* A building has Door rows after an update was answered 200 and some
\* building was deleted
C32_Witness ==
    /\ deleted # {}
    /\ resp.op = "PUT"
    /\ resp.status = 200
    /\ Len(Door[resp.id]) > 0

\* C33: the view holds at most one row for a building: all Door rows of a
\* building have one language and one id_cong_app.
C33_OneRowPerBuilding ==
    \A id \in DOMAIN Building :
        /\ Cardinality({row \in Building_v_24h : row.id = id}) <= 1
        /\ \A i, j \in 1..Len(Door[id]) :
               /\ Door[id][i].language = Door[id][j].language
               /\ Door[id][i].id_cong_app = Door[id][j].id_cong_app

\* C34: no save request is sent while another one of the session awaits its
\* answer.
C34_OneSaveRequestInFlight == save.inflight <= 1

\* C35: the draft has as many label slots as it declares doors.
C35_SlotsEqualDoorCount ==
    Len(page.formData.addressInfo) = page.formData.numberOfDoors

\* C36: when the gps text of the loaded draft shows two numbers, they are
\* the position a save would send.
C36_PositionIsTheGpsText ==
    (/\ page.isDataLoaded
     /\ page.position # NoPosition
     /\ page.formData.gps # <<>>
     /\ page.formData.gps[1] # undefined
     /\ page.formData.gps[2] # undefined)
        => page.position = <<page.formData.gps[1][1], page.formData.gps[2][1]>>

\* C37: every request being answered, a load, a save and a delete send no
\* more than one request to each of their endpoints, the busy flag is set
\* only while one of them runs, and each of them ends: isLoading and
\* isDeleting are cleared again, and a save that awaits an answer ends in
\* success or failure.
C37_HandlersTerminate ==
    /\ [](/\ Len(load.requested) <= Len(possibleEndpoints)
          /\ \A i, j \in 1..Len(load.requested) :
                 load.requested[i] = load.requested[j] => i = j
          /\ save.endpoint <= Len(putEndpoints)
          /\ save.delete.sent <= Len(deleteEndpoints)
          /\ page.isLoading
                 => load.at = "fetching" \/ save.at = "fetching"
          /\ page.isDeleting => save.delete.at = "fetching")
    /\ (page.isLoading ~> ~page.isLoading)
    /\ (page.isDeleting ~> ~page.isDeleting)
    /\ (save.at = "fetching"
           ~> (/\ save.at = "idle"
               /\ ~page.isLoading
               /\ page.showSuccessMessage \/ page.showErrorMessage))

\* A load that tried more than one endpoint, a save that failed and a
\* delete that failed on both endpoints have ended, no busy flag set
C37_Witness ==
    /\ load.at = "done"
    /\ Len(load.requested) > 1
    /\ save.at = "idle"
    /\ save.failedAt # <<>>
    /\ save.delete.at = "idle"
    /\ save.delete.sent = Len(deleteEndpoints)
    /\ ~page.isLoading
    /\ ~page.isDeleting

====
